---- MODULE Spec2Model ----
(***************************************************************************)
(* Model of the JETSCAPE analysis drivers                                  *)
(*   src/jetscape_analysis/analysis/analyze_events_STAT.py                 *)
(*   src/jetscape_analysis/analysis/analyze_events_TG3.py                  *)
(*                                                                         *)
(* Units: transverse momenta are integers (GeV); pseudorapidity, azimuth   *)
(* and jet radii are integers in units of 0.1, so jetR 0.2 is 2 and the    *)
(* test  delta_R < jetR  is  Dist2 < jetR*jetR.  The azimuths used keep    *)
(* every difference inside (-pi, pi], so delta_phi needs no wrap.          *)
(* Rapidity is taken equal to pseudorapidity (massless kinematics).        *)
(*                                                                         *)
(* The jet finder (fastjet) is an external collaborator: ClusterSequence   *)
(* stands for it as a deterministic seeded-cone clustering.                *)
(***************************************************************************)
EXTENDS Integers, Sequences, FiniteSets, TLC

VARIABLES
    program,              \* which entry point runs: "STAT" or "TG3"
    pc,                   \* position of the process
    self,                 \* members set by initialize_user_config
    is_AA,                \* self.is_AA
    centrality,           \* the run's centrality bin
    event,                \* the event handed to analyze_event
    observable_dict_event,\* self.observable_dict_event
    error,                \* uncaught exception that ended the run ("" = none)
    exit_status,          \* status handed to sys.exit (-1 = still running)
    printed,              \* messages printed or handed to sys.exit
    r_idx,                \* position in the jet_R loop of analyze_event
    stage,                \* part of the loop body being run
    jet_calls,            \* locals of the hole subtractions of the latest jet loop
    last_semi,            \* locals of the latest recoil-jet pt computations
    last_dijet,           \* locals of the latest fill_dijet_observables
    charge_result,        \* latest direct charge() lookup
    leading_result,       \* latest direct leading_jet() call
    appended,             \* history: values appended since the lists were initialized
    first_run,            \* history: first analysed event and what it produced
    scope                 \* which events the environment may hand over

vars == <<program, pc, self, is_AA, centrality, event, observable_dict_event,
          error, exit_status, printed, r_idx, stage, jet_calls, last_semi,
          last_dijet, charge_result, leading_result, appended, first_run, scope>>

----------------------------------------------------------------------------
(* Bounds of the model *)

\* longest event (number of particles) handed to analyze_event
MaxParticles == 3
\* longest event in the specification that analyses events repeatedly
MaxSeqParticles == 2
\* jets in a list handed to leading_jet directly
MaxDirectJets == 3

----------------------------------------------------------------------------
(* Kinematics of fastjet PseudoJets *)

Abs(x) == IF x < 0 THEN -x ELSE x

\* PseudoJet.delta_R squared
Dist2(a, b) == (a.eta - b.eta) * (a.eta - b.eta) + (a.phi - b.phi) * (a.phi - b.phi)


\* PseudoJet.delta_phi_to
DeltaPhi(a, b) == b.phi - a.phi

RECURSIVE SumPt(_)
SumPt(ps) == IF ps = <<>> THEN 0 ELSE Head(ps).pt + SumPt(Tail(ps))

\* Charged particles (e-, mu-, pi+, K+, p+, Sigma+, Sigma-, Xi-, Omega-)
ChargedPids == {11, 13, 211, 321, 2212, 3222, 3112, 3312, 3334}

IsCharged(p) == Abs(p.pid) \in ChargedPids

----------------------------------------------------------------------------
(* Events: ordered particle lists produced by the event generator *)

\* The particles an event is drawn from: a hard pion at (eta, phi) = (0, 0),
\* a kaon recoiling against it, and three holes.  Seen from the pion, one
\* hole (hard enough to push the pion's jet below the kaon's) is inside both
\* cones, one (neutral) exactly at delta_R = 0.2, and one far away, inside
\* the cone of the kaon.
ParticleChoices ==
    { [status |-> "+", pt |-> 60, eta |-> 0, phi |-> 0,  pid |-> 211],
      [status |-> "+", pt |-> 40, eta |-> 0, phi |-> 30, pid |-> -321],
      [status |-> "-", pt |-> 25, eta |-> 1, phi |-> 0,  pid |-> 211],
      [status |-> "-", pt |-> 3,  eta |-> 2, phi |-> 0,  pid |-> 2112],
      [status |-> "-", pt |-> 4,  eta |-> 1, phi |-> 30, pid |-> -211] }

\* The particles of the events of the runs with Soft Drop grooming: the hard
\* pion, a kaon at delta_R = 0.2 from it (its own jet at R = 0.2, a second
\* prong of the pion's jet at R = 0.4) and the hole between the two
GroomedParticleChoices ==
    { [status |-> "+", pt |-> 60, eta |-> 0, phi |-> 0, pid |-> 211],
      [status |-> "+", pt |-> 30, eta |-> 2, phi |-> 0, pid |-> 321],
      [status |-> "-", pt |-> 25, eta |-> 1, phi |-> 0, pid |-> 211] }

\* The particles of the events that are analysed repeatedly
SeqParticleChoices ==
    { p \in ParticleChoices : p.pid \in {211, -321} }

EventsUpTo(S, n) == UNION { [1..k -> S] : k \in 0..n }

\* fill_fastjet_constituents of the base class: the particles of the wanted
\* status, all of them or the charged ones only
fill_fastjet_constituents(ev, select_status, select_charged) ==
    SelectSeq(ev, LAMBDA p : p.status = select_status
                              /\ (select_charged => IsCharged(p)))

----------------------------------------------------------------------------
(* Jet finding: fj.ClusterSequence, fj.sorted_by_pt, the jet selector *)

\* index of the hardest particle (the first one on ties)
Hardest(ps) ==
    CHOOSE i \in 1..Len(ps) :
        \A j \in 1..Len(ps) : /\ ps[j].pt <= ps[i].pt
                              /\ (j < i => ps[j].pt < ps[i].pt)

RECURSIVE ClusterSequence(_, _)
ClusterSequence(ps, jetR) ==
    IF ps = <<>> THEN <<>>
    ELSE LET seed    == ps[Hardest(ps)]
             near(p) == Dist2(seed, p) < jetR * jetR
             members == SelectSeq(ps, near)
             rest    == SelectSeq(ps, LAMBDA p : ~near(p))
         IN  << [pt |-> SumPt(members), eta |-> seed.eta, phi |-> seed.phi,
                 constituents |-> members] >> \o ClusterSequence(rest, jetR)

RECURSIVE InsertByPt(_, _)
InsertByPt(jet, jets) ==
    IF jets = <<>> THEN <<jet>>
    ELSE IF jet.pt > Head(jets).pt THEN <<jet>> \o jets
    ELSE <<Head(jets)>> \o InsertByPt(jet, Tail(jets))

RECURSIVE sorted_by_pt(_)
sorted_by_pt(jets) ==
    IF jets = <<>> THEN <<>>
    ELSE InsertByPt(Head(jets), sorted_by_pt(Tail(jets)))

\* fj.SelectorPtMin(min_jet_pt) & fj.SelectorAbsRapMax(max_jet_y)
jet_selector(jets, min_jet_pt, max_jet_y) ==
    SelectSeq(jets, LAMBDA j : j.pt >= min_jet_pt /\ Abs(j.eta) <= max_jet_y)

\* jets_selected of analyze_event for one jet radius
jets_selected_of(hadrons, jetR, min_jet_pt, max_jet_y) ==
    jet_selector(sorted_by_pt(ClusterSequence(hadrons, jetR)), min_jet_pt, max_jet_y)

----------------------------------------------------------------------------
(* The configuration document (YAML) and initialize_user_config *)

None == [None |-> TRUE]

\* an empty dict
EmptyDict == [k \in {} |-> <<>>]

\* `if x:` on a member that is None or a dict
Truthy(x) == x # None /\ DOMAIN x # {}

HadronSettings ==
    [ pt_ch_alice   |-> [centrality |-> {0, 1}, pt |-> <<1, 50>>,  eta_cut |-> 8],
      pt_pi_alice   |-> [centrality |-> {0, 1}, pt |-> <<1, 50>>,  eta_cut |-> 8],
      pt_pi0_alice  |-> [centrality |-> {0},    pt |-> <<1, 50>>,  eta_cut |-> 1],
      pt_ch_atlas   |-> [centrality |-> {0},    pt |-> <<1, 100>>, eta_cut |-> 20],
      pt_ch_cms     |-> [centrality |-> {0},    pt |-> <<1, 100>>, eta_cut |-> 10],
      pt_pi0_phenix |-> [centrality |-> {0, 1}, pt |-> <<5, 20>>,  eta_cut |-> 3],
      pt_ch_star    |-> [centrality |-> {0},    pt |-> <<3, 30>>,  eta_cut |-> 10] ]

HadronNames(sqrt_s) ==
    IF sqrt_s = 2760 THEN {"pt_ch_alice", "pt_pi_alice", "pt_pi0_alice", "pt_ch_atlas", "pt_ch_cms"}
    ELSE IF sqrt_s = 5020 THEN {"pt_ch_alice", "pt_pi_alice", "pt_ch_cms"}
    ELSE {"pt_pi0_phenix", "pt_ch_star"}

\* (kappa in units of 0.1)
InclusiveJetBlock ==
    [ pt_alice |-> [centrality |-> {0},    pt |-> <<20, 100>>,  jet_R |-> <<2, 4>>, eta_cut_R |-> 7],
      pt_atlas |-> [centrality |-> {0, 1}, pt |-> <<50, 1000>>, jet_R |-> <<4>>,    y_cut |-> 28],
      pt_cms   |-> [centrality |-> {0},    pt |-> <<20, 1000>>, jet_R |-> <<2, 4>>, eta_cut |-> 20],
      Dz_atlas |-> [centrality |-> {1}, pt |-> <<20, 60, 200>>, jet_R |-> <<4>>, y_cut |-> 21],
      Dpt_atlas |-> [centrality |-> {1}, pt |-> <<20, 60, 200>>, jet_R |-> <<4>>, y_cut |-> 21],
      Dz_cms   |-> [centrality |-> {1}, pt |-> <<20, 60, 200>>, jet_R |-> <<2>>,
                    eta_cut |-> <<-1, 16>>],
      Dpt_cms  |-> [centrality |-> {1}, pt |-> <<20, 60, 200>>, jet_R |-> <<2>>,
                    eta_cut |-> <<-1, 16>>],
      charge_cms |-> [centrality |-> {0}, pt_min |-> 50, jet_R |-> <<4>>, eta_cut |-> 15,
                      kappa |-> <<3, 5>>, track_pt_min |-> 1] ]

InclusiveChjetBlock(sqrt_s) ==
    IF sqrt_s = 2760 THEN
        [ pt_alice   |-> [centrality |-> {0}, pt |-> <<5, 100>>, jet_R |-> <<2, 4>>,
                          eta_cut |-> 5, leading_track_min_pt |-> 5],
          g_alice    |-> [centrality |-> {1}, pt |-> <<20, 100>>, jet_R |-> <<4>>,
                          eta_cut_R |-> 9],
          ptd_alice  |-> [centrality |-> {1}, pt |-> <<20, 100>>, jet_R |-> <<2, 4>>,
                          eta_cut_R |-> 9],
          mass_alice |-> [centrality |-> {1}, pt |-> <<20, 100>>, jet_R |-> <<2>>,
                          eta_cut_R |-> 9] ]
    ELSE IF sqrt_s = 200 THEN
        [ pt_star |-> [centrality |-> {0, 1}, pt |-> <<10, 30>>, jet_R |-> <<2, 4>>,
                       eta_cut_R |-> 10] ]
    ELSE EmptyDict

SemiInclusiveChjetBlock(sqrt_s) ==
    IF sqrt_s = 200 THEN
        [ IAA_star  |-> [centrality |-> {0}, jet_R |-> <<2, 4>>, trigger_range |-> <<30, 70>>,
                         pt |-> <<20, 100>>, hadron_eta_cut |-> 9, eta_cut_R |-> 10],
          dphi_star |-> [jet_R |-> <<4>>, pt |-> <<20, 100>>] ]
    ELSE
        [ IAA_alice  |-> [centrality |-> {0}, jet_R |-> <<2, 4>>,
                          low_trigger_range |-> <<50, 70>>, high_trigger_range |-> <<20, 50>>,
                          pt |-> <<20, 100>>, hadron_eta_cut |-> 9, eta_cut_R |-> 9],
          dphi_alice |-> [jet_R |-> <<4>>, pt |-> <<20, 100>>],
          nsubjettiness_alice |-> [centrality |-> {0}, jet_R |-> <<4>>,
                          low_trigger_range |-> <<50, 70>>, high_trigger_range |-> <<20, 50>>,
                          pt |-> <<40, 60>>] ]

\* Soft Drop settings (zcut in units of 0.1)
SoftDropSettings == << [zcut |-> 2, beta |-> 0], [zcut |-> 4, beta |-> 0] >>

\* the blocks of the 5020 GeV documents with Soft Drop grooming
GroomedInclusiveJetBlock ==
    [ key \in DOMAIN InclusiveJetBlock \cup {"mg_cms", "zg_cms"} |->
        IF key = "mg_cms"
        THEN [centrality |-> {0}, pt |-> <<20, 200>>, jet_R |-> <<2, 4>>,
              eta_cut |-> 20, dR |-> 1, SoftDrop |-> SoftDropSettings]
        ELSE IF key = "zg_cms"
        THEN [centrality |-> {0}, pt |-> <<20, 200>>, jet_R |-> <<4>>,
              eta_cut |-> 20, dR |-> 1, SoftDrop |-> << SoftDropSettings[1] >>]
        ELSE InclusiveJetBlock[key] ]

GroomedInclusiveChjetBlock(zg_settings) ==
    [ zg_alice |-> [centrality |-> {0}, pt |-> <<20, 100>>, jet_R |-> <<2, 4>>,
                    eta_cut_R |-> 9, SoftDrop |-> zg_settings],
      tg_alice |-> [centrality |-> {0}, pt |-> <<20, 100>>, jet_R |-> <<2, 4>>,
                    eta_cut_R |-> 9, SoftDrop |-> SoftDropSettings] ]

DijetBlock ==
    [ xj_atlas |-> [centrality |-> {0}, jet_R |-> <<2, 4>>, pt_subleading_min |-> 25,
                    pt_leading_min |-> 30, eta_cut |-> 21] ]

\* The configuration documents the runs are started with: per beam energy,
\* one with the optional blocks and one without them.
ConfigFile(sqrt_s, optional) ==
    LET required == [ sqrt_s |-> sqrt_s,
                      hadron |-> [n \in HadronNames(sqrt_s) |-> HadronSettings[n]],
                      hadron_correlations |-> EmptyDict,
                      inclusive_chjet |-> InclusiveChjetBlock(sqrt_s),
                      jet_R |-> <<2, 4>>, min_jet_pt |-> 10, max_jet_y |-> 30 ]
    IN  IF optional
        THEN [ k \in DOMAIN required \cup {"inclusive_jet", "semi_inclusive_chjet", "dijet"} |->
                 IF k = "inclusive_jet" THEN InclusiveJetBlock
                 ELSE IF k = "semi_inclusive_chjet" THEN SemiInclusiveChjetBlock(sqrt_s)
                 ELSE IF k = "dijet" THEN DijetBlock
                 ELSE required[k] ]
        ELSE required

ConfigFiles == { ConfigFile(s, o) : s \in {2760, 5020, 200}, o \in BOOLEAN }

\* The 5020 GeV documents with a SoftDrop block: zg_alice is measured with
\* the first setting, or with both
GroomedConfigFile(zg_settings) ==
    [ sqrt_s |-> 5020,
      hadron |-> [n \in HadronNames(5020) |-> HadronSettings[n]],
      hadron_correlations |-> EmptyDict,
      inclusive_chjet |-> GroomedInclusiveChjetBlock(zg_settings),
      inclusive_jet |-> GroomedInclusiveJetBlock,
      jet_R |-> <<2, 4>>, min_jet_pt |-> 10, max_jet_y |-> 30,
      SoftDrop |-> SoftDropSettings ]

GroomedConfigFiles ==
    { GroomedConfigFile(zg) : zg \in { << SoftDropSettings[1] >>, SoftDropSettings } }

\* grooming_settings is read by `if self.grooming_settings:` and by the loop
\* under it only; None, like the empty list, is false there and is held as
\* the empty list
initialize_user_config(cfg) ==
    [ sqrts |-> cfg.sqrt_s,
      hadron_observables |-> cfg.hadron,
      hadron_correlation_observables |-> cfg.hadron_correlations,
      inclusive_chjet_observables |-> cfg.inclusive_chjet,
      inclusive_jet_observables |->
          IF "inclusive_jet" \in DOMAIN cfg THEN cfg.inclusive_jet ELSE None,
      semi_inclusive_chjet_observables |->
          IF "semi_inclusive_chjet" \in DOMAIN cfg THEN cfg.semi_inclusive_chjet ELSE None,
      dijet_observables |->
          IF "dijet" \in DOMAIN cfg THEN cfg.dijet ELSE None,
      jet_R |-> cfg.jet_R,
      min_jet_pt |-> cfg.min_jet_pt,
      max_jet_y |-> cfg.max_jet_y,
      grooming_settings |-> IF "SoftDrop" \in DOMAIN cfg THEN cfg.SoftDrop ELSE <<>> ]

\* centrality_accepted of the base class: the run's centrality bin is one
\* the observable is measured in
centrality_accepted(observable_centrality) == centrality \in observable_centrality

\* membership in a list of the configuration (`jetR in block['jet_R']`)
InList(x, list) == \E i \in 1..Len(list) : list[i] = x

----------------------------------------------------------------------------
(* The observable container self.observable_dict_event *)

\* The key f'{block}_{observable}_R{jetR}{suffix}'; jetR = 0 for the keys
\* that carry no jet radius
Key(block, observable, jetR, suffix) == <<block, observable, jetR, suffix>>

\* The running state of a fill: the container, the exception raised so far
\* ("" = none) and the (corrected, uncorrected) jet pt pairs computed
Running(d) == [d |-> d, err |-> "", log |-> <<>>]

Raise(s, exception) == IF s.err # "" THEN s ELSE [s EXCEPT !.err = exception]

\* self.observable_dict_event[key].append(value)
AppendTo(s, key, value) ==
    IF s.err # "" THEN s
    ELSE IF key \notin DOMAIN s.d THEN Raise(s, "KeyError")
    ELSE [s EXCEPT !.d[key] = Append(@, value)]

Log(s, jet_pt, jet_pt_unsubtracted) ==
    IF s.err # "" THEN s
    ELSE [s EXCEPT !.log = Append(@, <<jet_pt, jet_pt_unsubtracted>>)]

\* the values of a configuration list, as a set
Elems(list) == { list[i] : i \in 1..Len(list) }

HadronKeys ==
    UNION { { Key("hadron", observable, 0, "") }
            \cup (IF is_AA THEN { Key("hadron", observable, 0, "_holes") } ELSE {})
            : observable \in DOMAIN self.hadron_observables }

HadronCorrelationKeys ==
    { Key("hadron_correlations", observable, 0, "")
      : observable \in DOMAIN self.hadron_correlation_observables }

\* f'_zcut{zcut}_beta{beta}'
SoftDropSuffix(grooming_setting) ==
    "_zcut" \o ToString(grooming_setting.zcut) \o "_beta" \o ToString(grooming_setting.beta)

\* the keys of one observable and one jet radius of a jet block
JetKeys(block, key, jetR, suffix) ==
    { Key(block, key, jetR, suffix) }
    \cup (IF is_AA THEN { Key(block, key, jetR, suffix \o "_unsubtracted") } ELSE {})

\* f'_k{kappa}'
KappaSuffix(kappa) == "_k" \o ToString(kappa)

\* 'Dz' in key, 'Dpt' in key and 'charge_cms' in key, for the observable
\* names of the analysis
IsDz(key) == key \in {"Dz_atlas", "Dz_cms"}
IsDpt(key) == key \in {"Dpt_atlas", "Dpt_cms"}
IsChargeCms(key) == key = "charge_cms"

\* the keys of a fragmentation-function observable and one jet radius
FragmentationKeys(key, jetR) ==
    { Key("inclusive_jet", key, jetR, "") }
    \cup (IF is_AA THEN { Key("inclusive_jet", key, jetR, "_holes") } ELSE {})
    \cup (IF IsDz(key) THEN { Key("inclusive_jet", key, jetR, "_Njets") } ELSE {})

InclusiveJetKeys ==
    IF ~Truthy(self.inclusive_jet_observables) THEN {}
    ELSE UNION { UNION {
            IF "SoftDrop" \in DOMAIN self.inclusive_jet_observables[key]
            THEN UNION { JetKeys("inclusive_jet", key, jetR, SoftDropSuffix(grooming_setting))
                         : grooming_setting \in
                              Elems(self.inclusive_jet_observables[key].SoftDrop) }
            ELSE IF IsChargeCms(key)
            THEN UNION { JetKeys("inclusive_jet", key, jetR, KappaSuffix(kappa))
                         : kappa \in Elems(self.inclusive_jet_observables[key].kappa) }
            ELSE IF IsDz(key) \/ IsDpt(key)
            THEN FragmentationKeys(key, jetR)
            ELSE JetKeys("inclusive_jet", key, jetR, "")
            : jetR \in Elems(self.inclusive_jet_observables[key].jet_R) }
         : key \in DOMAIN self.inclusive_jet_observables }

InclusiveChjetKeys ==
    UNION { UNION {
            IF "SoftDrop" \in DOMAIN self.inclusive_chjet_observables[key]
            THEN UNION { IF key = "tg_alice" /\ jetR = 2 /\ grooming_setting.zcut = 4
                         THEN {}
                         ELSE JetKeys("inclusive_chjet", key, jetR,
                                      SoftDropSuffix(grooming_setting))
                         : grooming_setting \in
                              Elems(self.inclusive_chjet_observables[key].SoftDrop) }
            ELSE JetKeys("inclusive_chjet", key, jetR, "")
            : jetR \in Elems(self.inclusive_chjet_observables[key].jet_R) }
         : key \in DOMAIN self.inclusive_chjet_observables }

SemiInclusiveChjetKeys ==
    IF ~Truthy(self.semi_inclusive_chjet_observables) THEN {}
    ELSE UNION { UNION {
            IF self.sqrts = 2760 THEN
                { Key("semi_inclusive_chjet", key, jetR, "_lowTrigger"),
                  Key("semi_inclusive_chjet", key, jetR, "_highTrigger"),
                  Key("semi_inclusive_chjet", "alice_trigger_pt", 0, "") }
                \cup (IF is_AA THEN
                        { Key("semi_inclusive_chjet", key, jetR, "_lowTrigger_unsubtracted"),
                          Key("semi_inclusive_chjet", key, jetR, "_highTrigger_unsubtracted"),
                          Key("semi_inclusive_chjet", "alice_trigger_pt", 0, "_unsubtracted") }
                      ELSE {})
            ELSE IF self.sqrts = 200 THEN
                { Key("semi_inclusive_chjet", key, jetR, ""),
                  Key("semi_inclusive_chjet", "star_trigger_pt", 0, "") }
                \cup (IF is_AA THEN
                        { Key("semi_inclusive_chjet", key, jetR, "_unsubtracted"),
                          Key("semi_inclusive_chjet", "star_trigger_pt", 0, "_unsubtracted") }
                      ELSE {})
            ELSE {}
            : jetR \in Elems(self.semi_inclusive_chjet_observables[key].jet_R) }
         : key \in DOMAIN self.semi_inclusive_chjet_observables }

DijetKeys ==
    IF ~Truthy(self.dijet_observables) THEN {}
    ELSE UNION { UNION {
            { Key("dijet", key, jetR, "") }
            \cup (IF is_AA THEN { Key("dijet", key, jetR, "_unsubtracted") } ELSE {})
            : jetR \in Elems(self.dijet_observables[key].jet_R) }
         : key \in DOMAIN self.dijet_observables }

\* every key initialize_output_lists binds
OutputKeys ==
    HadronKeys \cup HadronCorrelationKeys \cup InclusiveJetKeys
    \cup InclusiveChjetKeys \cup SemiInclusiveChjetKeys \cup DijetKeys

\* mutant of initialize_output_lists: a list that exists already is kept
initialize_output_lists_KeepsLists(d) ==
    [ k \in DOMAIN d \cup OutputKeys |-> IF k \in DOMAIN d THEN d[k] ELSE <<>> ]

\* mutant of initialize_output_lists: the lists are created once per run
initialize_output_lists_OncePerRun(d) ==
    IF DOMAIN d # {} THEN d ELSE [ k \in OutputKeys |-> <<>> ]

\* initialize_output_lists: each key is bound to a new empty list; a key it
\* does not name keeps its list
initialize_output_lists(d) ==
    [ k \in DOMAIN d \cup OutputKeys |-> IF k \in OutputKeys THEN <<>> ELSE d[k] ]

----------------------------------------------------------------------------
(* fill_hadron_observables *)

\* upper edge of the open pt ranges at 200 GeV
OpenUpperBound == 100

\* One experiment's block of the loop body: the observable's settings are
\* read (KeyError when the block is not configured), then centrality, the pt
\* window, the eta cut and the species are tested.
HadronObservable(s, particle, name, open_upper, pids, suffix) ==
    IF s.err # "" THEN s
    ELSE IF name \notin DOMAIN self.hadron_observables THEN Raise(s, "KeyError")
    ELSE LET obs    == self.hadron_observables[name]
             pt_min == obs.pt[1]
             pt_max == IF open_upper THEN OpenUpperBound ELSE obs.pt[2]
         IN  IF /\ centrality_accepted(obs.centrality)
                /\ particle.pt > pt_min /\ particle.pt < pt_max
                /\ Abs(particle.eta) < obs.eta_cut
                /\ Abs(particle.pid) \in pids
             THEN AppendTo(s, Key("hadron", name, 0, suffix), particle.pt)
             ELSE s

FillHadron(s, particle, suffix) ==
    IF self.sqrts \in {2760, 5020} THEN
        LET s1 == HadronObservable(s, particle, "pt_ch_alice", FALSE, ChargedPids, suffix)
            s2 == HadronObservable(s1, particle, "pt_pi_alice", FALSE, {211}, suffix)
            s3 == IF self.sqrts \in {2760}
                  THEN HadronObservable(s2, particle, "pt_pi0_alice", FALSE, {111}, suffix)
                  ELSE s2
            s4 == IF self.sqrts \in {2760}
                  THEN HadronObservable(s3, particle, "pt_ch_atlas", FALSE, ChargedPids, suffix)
                  ELSE s3
        IN  HadronObservable(s4, particle, "pt_ch_cms", FALSE, ChargedPids, suffix)
    ELSE IF self.sqrts \in {200} THEN
        LET s1 == HadronObservable(s, particle, "pt_pi0_phenix", TRUE, {111}, suffix)
        IN  HadronObservable(s1, particle, "pt_ch_star", TRUE, {211, 321, 2212}, suffix)
    ELSE s

RECURSIVE FillHadronLoop(_, _, _)
FillHadronLoop(s, fj_particles, suffix) ==
    IF fj_particles = <<>> THEN s
    ELSE FillHadronLoop(FillHadron(s, Head(fj_particles), suffix), Tail(fj_particles), suffix)

\* mutant of fill_hadron_observables: the status is ignored and the holes go
\* to the lists of the shower particles
fill_hadron_observables_IgnoresStatus(s, fj_particles, status) ==
    FillHadronLoop(s, fj_particles, "")

fill_hadron_observables(s, fj_particles, status) ==
    FillHadronLoop(s, fj_particles, IF status = "-" THEN "_holes" ELSE "")

----------------------------------------------------------------------------
(* Hole subtraction of a jet's pt *)

\* mutant of InCone: the cone test made inclusive (<=)
InCone_Inclusive(jet, hadron, jetR) == Dist2(jet, hadron) <= jetR * jetR

\* jet.delta_R(hadron) < jetR
InCone(jet, hadron, jetR) == Dist2(jet, hadron) < jetR * jetR

\* mutant of HoleLoop: every hole of the event is subtracted, whatever its
\* distance to the jet
RECURSIVE HoleLoop_NoConeTest(_, _, _, _)
HoleLoop_NoConeTest(jet, fj_hadrons_negative, jetR, acc) ==
    IF fj_hadrons_negative = <<>> THEN acc
    ELSE HoleLoop_NoConeTest(jet, Tail(fj_hadrons_negative), jetR,
             [negative_pt  |-> acc.negative_pt + Head(fj_hadrons_negative).pt,
              holes_in_jet |-> Append(acc.holes_in_jet, Head(fj_hadrons_negative))])

\* the loop over fj_hadrons_negative: negative_pt and holes_in_jet
RECURSIVE HoleLoop(_, _, _, _)
HoleLoop(jet, fj_hadrons_negative, jetR, acc) ==
    IF fj_hadrons_negative = <<>> THEN acc
    ELSE LET hadron == Head(fj_hadrons_negative)
             next   == IF InCone(jet, hadron, jetR)
                       THEN [negative_pt  |-> acc.negative_pt + hadron.pt,
                             holes_in_jet |-> Append(acc.holes_in_jet, hadron)]
                       ELSE acc
         IN  HoleLoop(jet, Tail(fj_hadrons_negative), jetR, next)

NoHoles == [negative_pt |-> 0, holes_in_jet |-> <<>>]

\* mutant of HoleSubtraction: the subtraction is made in pp as well
HoleSubtraction_IgnoresMode(jet, fj_hadrons_negative, jetR, AA) ==
    LET sums == HoleLoop(jet, fj_hadrons_negative, jetR, NoHoles)
    IN  [jet_pt_uncorrected |-> jet.pt,
         jet_pt             |-> jet.pt - sums.negative_pt,
         holes_in_jet       |-> sums.holes_in_jet]

\* the head of analyze_inclusive_jet: the corrected and uncorrected jet pt
\* and the holes inside the jet
HoleSubtraction(jet, fj_hadrons_negative, jetR, AA) ==
    IF AA THEN
        LET sums == HoleLoop(jet, fj_hadrons_negative, jetR, NoHoles)
        IN  [jet_pt_uncorrected |-> jet.pt,
             jet_pt             |-> jet.pt - sums.negative_pt,
             holes_in_jet       |-> sums.holes_in_jet]
    ELSE [jet_pt_uncorrected |-> jet.pt, jet_pt |-> jet.pt, holes_in_jet |-> <<>>]

\* the head of the jet loop of TG3's fill_jet_histograms: always subtracts
TG3_HoleSubtraction(jet, fj_hadrons_negative, jetR) ==
    LET sums == HoleLoop(jet, fj_hadrons_negative, jetR, NoHoles)
    IN  [jet_pt_uncorrected |-> jet.pt,
         jet_pt             |-> jet.pt - sums.negative_pt,
         holes_in_jet       |-> sums.holes_in_jet]

----------------------------------------------------------------------------
(* charge: electric charge from pid *)

\* what a lookup does: return a value, or hand a message to sys.exit
Returns(value) == [returned |-> TRUE, value |-> value]
SysExit(message) == [returned |-> FALSE, message |-> message]

\* mutant of charge: Omega- (3334) is missing from the negative species
charge_MissingSpecies(pid) ==
    IF pid \in {11, 13, -211, -321, -2212, -3222, 3112, 3312} THEN Returns(-1)
    ELSE IF pid \in {-11, -13, 211, 321, 2212, 3222, -3112, -3312, -3334} THEN Returns(1)
    ELSE IF pid \in {22, 111, 2112} THEN Returns(0)
    ELSE SysExit(<<"failed to compute charge of pid", pid>>)

\* mutant of charge: an unknown species is taken to be neutral
charge_DefaultNeutral(pid) ==
    IF pid \in {11, 13, -211, -321, -2212, -3222, 3112, 3312, 3334} THEN Returns(-1)
    ELSE IF pid \in {-11, -13, 211, 321, 2212, 3222, -3112, -3312, -3334} THEN Returns(1)
    ELSE Returns(0)

charge(pid) ==
    IF pid \in {11, 13, -211, -321, -2212, -3222, 3112, 3312, 3334} THEN Returns(-1)
    ELSE IF pid \in {-11, -13, 211, 321, 2212, 3222, -3112, -3312, -3334} THEN Returns(1)
    ELSE IF pid \in {22, 111, 2112} THEN Returns(0)
    ELSE SysExit(<<"failed to compute charge of pid", pid>>)

----------------------------------------------------------------------------
(* Inclusive jet observables *)

\* the exception of block[name] on a member that may be None
SubscriptError(block, name) ==
    IF block = None THEN "TypeError"
    ELSE IF name \notin DOMAIN block THEN "KeyError"
    ELSE ""

\* the leading-track requirement: a charged constituent above the threshold
accept_jet(jet, min_leading_track_pt) ==
    \E i \in 1..Len(jet.constituents) :
        /\ jet.constituents[i].pt > min_leading_track_pt
        /\ IsCharged(jet.constituents[i])

\* the two appends shared by the pt observables
AppendJetPt(s, block, name, jetR, jet_pt, jet_pt_uncorrected) ==
    LET s1 == AppendTo(s, Key(block, name, jetR, ""), jet_pt)
    IN  IF is_AA
        THEN AppendTo(s1, Key(block, name, jetR, "_unsubtracted"), jet_pt_uncorrected)
        ELSE s1

FullJetPtAlice(s, jet, jet_pt, jet_pt_uncorrected, jetR) ==
    LET e == SubscriptError(self.inclusive_jet_observables, "pt_alice") IN
    IF s.err # "" THEN s
    ELSE IF e # "" THEN Raise(s, e)
    ELSE LET obs == self.inclusive_jet_observables["pt_alice"]
             min_leading_track_pt == IF jetR = 2 THEN 5 ELSE 7
         IN  IF /\ centrality_accepted(obs.centrality)
                /\ InList(jetR, obs.jet_R)
                /\ Abs(jet.eta) < obs.eta_cut_R - jetR
                /\ jet_pt > obs.pt[1] /\ jet_pt < obs.pt[2]
                /\ accept_jet(jet, min_leading_track_pt)
             THEN AppendJetPt(s, "inclusive_jet", "pt_alice", jetR, jet_pt, jet_pt_uncorrected)
             ELSE s

FullJetPtAtlas(s, jet, jet_pt, jet_pt_uncorrected, jetR) ==
    LET e == SubscriptError(self.inclusive_jet_observables, "pt_atlas") IN
    IF s.err # "" THEN s
    ELSE IF e # "" THEN Raise(s, e)
    ELSE LET obs == self.inclusive_jet_observables["pt_atlas"]
         IN  IF /\ centrality_accepted(obs.centrality)
                /\ InList(jetR, obs.jet_R)
                /\ Abs(jet.eta) < obs.y_cut
                /\ jet_pt > obs.pt[1] /\ jet_pt < obs.pt[2]
             THEN AppendJetPt(s, "inclusive_jet", "pt_atlas", jetR, jet_pt, jet_pt_uncorrected)
             ELSE s

FullJetPtCms(s, jet, jet_pt, jet_pt_uncorrected, jetR) ==
    LET e == SubscriptError(self.inclusive_jet_observables, "pt_cms") IN
    IF s.err # "" THEN s
    ELSE IF e # "" THEN Raise(s, e)
    ELSE LET obs == self.inclusive_jet_observables["pt_cms"]
         IN  IF /\ centrality_accepted(obs.centrality)
                /\ InList(jetR, obs.jet_R)
                /\ Abs(jet.eta) < obs.eta_cut
                /\ jet_pt > obs.pt[1] /\ jet_pt < obs.pt[2]
             THEN AppendJetPt(s, "inclusive_jet", "pt_cms", jetR, jet_pt, jet_pt_uncorrected)
             ELSE s

\* delta_R of PseudoJet: the distance in the (eta, phi) plane, which is a
\* whole number of units for the particles inside the cone of a jet
delta_R(a, b) == CHOOSE r \in 0..Dist2(a, b) : r * r = Dist2(a, b)

\* the loop over hadrons of a fragmentation-function block: per charged
\* hadron inside the cone an entry [jet_pt, z] and an entry [jet_pt, pt];
\* z = pt * cos(delta_R) / jet_pt is kept as <<pt, delta_R, jet_pt>>
RECURSIVE FragmentationLoop(_, _, _, _, _, _, _, _)
FragmentationLoop(s, hadrons, jet, jet_pt, jetR, Dz, Dpt, suffix) ==
    IF hadrons = <<>> \/ s.err # "" THEN s
    ELSE LET hadron == Head(hadrons)
             s1 == IF IsCharged(hadron) /\ Dist2(jet, hadron) < jetR * jetR
                   THEN AppendTo(AppendTo(s, Key("inclusive_jet", Dz, jetR, suffix),
                                          <<jet_pt, <<hadron.pt, delta_R(jet, hadron), jet_pt>> >>),
                                 Key("inclusive_jet", Dpt, jetR, suffix),
                                 <<jet_pt, hadron.pt>>)
                   ELSE s
         IN  FragmentationLoop(s1, Tail(hadrons), jet, jet_pt, jetR, Dz, Dpt, suffix)

\* the ATLAS and CMS D(z) blocks; they differ in the rapidity window
FullJetDz(s, Dz, Dpt, jet, fj_hadrons_positive, holes_in_jet, jet_pt, jetR) ==
    LET e == SubscriptError(self.inclusive_jet_observables, Dz) IN
    IF s.err # "" THEN s
    ELSE IF e # "" THEN Raise(s, e)
    ELSE LET obs == self.inclusive_jet_observables[Dz]
             in_window == IF Dz = "Dz_atlas"
                          THEN Abs(jet.eta) < obs.y_cut
                          ELSE obs.eta_cut[1] < Abs(jet.eta) /\ Abs(jet.eta) < obs.eta_cut[2]
         IN  IF /\ centrality_accepted(obs.centrality)
                /\ InList(jetR, obs.jet_R)
                /\ in_window
                /\ obs.pt[1] < jet_pt /\ jet_pt < obs.pt[Len(obs.pt)]
             THEN LET s1 == AppendTo(s, Key("inclusive_jet", Dz, jetR, "_Njets"), jet_pt)
                      s2 == FragmentationLoop(s1, fj_hadrons_positive, jet, jet_pt, jetR,
                                              Dz, Dpt, "")
                  IN  IF is_AA
                      THEN FragmentationLoop(s2, holes_in_jet, jet, jet_pt, jetR,
                                             Dz, Dpt, "_holes")
                      ELSE s2
             ELSE s

\* the terms charge(pid) * pt^kappa of the charged hadrons above
\* track_pt_min inside the cone, each kept as <<charge, pt>>
ChargeTerms(hadrons, jet, jetR, track_pt_min) ==
    LET counted == SelectSeq(hadrons, LAMBDA hadron :
                       /\ hadron.pt > track_pt_min
                       /\ IsCharged(hadron)
                       /\ Dist2(jet, hadron) < jetR * jetR)
    IN  [ i \in DOMAIN counted |-> <<charge(counted[i].pid).value, counted[i].pt>> ]

\* the jet charge for the exponents kappa[from..]; the charge
\* sum / jet_pt^kappa is kept as the record of its terms
RECURSIVE KappaLoop(_, _, _, _, _, _, _)
KappaLoop(s, kappas, jet, fj_hadrons_positive, holes_in_jet, jet_pt, jetR) ==
    IF kappas = <<>> \/ s.err # "" THEN s
    ELSE LET obs   == self.inclusive_jet_observables["charge_cms"]
             kappa == Head(kappas)
             sum   == ChargeTerms(fj_hadrons_positive, jet, jetR, obs.track_pt_min)
             sum_holes == ChargeTerms(holes_in_jet, jet, jetR, obs.track_pt_min)
             value(minus) == [sum |-> sum, sum_holes |-> minus, jet_pt |-> jet_pt,
                              kappa |-> kappa]
             s1 == IF is_AA
                   THEN AppendTo(AppendTo(s, Key("inclusive_jet", "charge_cms", jetR,
                                                 KappaSuffix(kappa) \o "_unsubtracted"),
                                          value(<<>>)),
                                 Key("inclusive_jet", "charge_cms", jetR, KappaSuffix(kappa)),
                                 value(sum_holes))
                   ELSE AppendTo(s, Key("inclusive_jet", "charge_cms", jetR, KappaSuffix(kappa)),
                                 value(<<>>))
         IN  KappaLoop(s1, Tail(kappas), jet, fj_hadrons_positive, holes_in_jet, jet_pt, jetR)

\* the CMS jet charge block
FullJetChargeCms(s, jet, fj_hadrons_positive, holes_in_jet, jet_pt, jetR) ==
    LET e == SubscriptError(self.inclusive_jet_observables, "charge_cms") IN
    IF s.err # "" THEN s
    ELSE IF e # "" THEN Raise(s, e)
    ELSE LET obs == self.inclusive_jet_observables["charge_cms"]
         IN  IF /\ centrality_accepted(obs.centrality)
                /\ InList(jetR, obs.jet_R)
                /\ Abs(jet.eta) < obs.eta_cut
                /\ jet_pt > obs.pt_min
             THEN KappaLoop(s, obs.kappa, jet, fj_hadrons_positive, holes_in_jet, jet_pt, jetR)
             ELSE s

\* fill_full_jet_ungroomed_observables: the pt observables (ALICE, ATLAS,
\* CMS RAA), the fragmentation functions and the jet charge
fill_full_jet_ungroomed_observables(s, jet, fj_hadrons_positive, holes_in_jet, jet_pt, jet_pt_uncorrected, jetR) ==
    IF self.sqrts \in {2760, 5020} THEN
        LET s1 == FullJetPtAlice(s, jet, jet_pt, jet_pt_uncorrected, jetR)
            s2 == FullJetPtAtlas(s1, jet, jet_pt, jet_pt_uncorrected, jetR)
            s3 == FullJetPtCms(s2, jet, jet_pt, jet_pt_uncorrected, jetR)
            s4 == FullJetDz(s3, "Dz_atlas", "Dpt_atlas", jet, fj_hadrons_positive,
                            holes_in_jet, jet_pt, jetR)
            s5 == IF self.sqrts = 2760
                  THEN FullJetDz(s4, "Dz_cms", "Dpt_cms", jet, fj_hadrons_positive,
                                 holes_in_jet, jet_pt, jetR)
                  ELSE s4
        IN  IF self.sqrts = 5020
            THEN FullJetChargeCms(s5, jet, fj_hadrons_positive, holes_in_jet, jet_pt, jetR)
            ELSE s5
    ELSE s

ChargedJetPtAlice(s, jet, jet_pt, jet_pt_uncorrected, jetR) ==
    LET e == SubscriptError(self.inclusive_chjet_observables, "pt_alice") IN
    IF s.err # "" THEN s
    ELSE IF e # "" THEN Raise(s, e)
    ELSE LET obs == self.inclusive_chjet_observables["pt_alice"]
         IN  IF /\ centrality_accepted(obs.centrality)
                /\ InList(jetR, obs.jet_R)
                /\ Abs(jet.eta) < obs.eta_cut
                /\ jet_pt > obs.pt[1] /\ jet_pt < obs.pt[2]
                /\ accept_jet(jet, obs.leading_track_min_pt)
             THEN AppendJetPt(s, "inclusive_chjet", "pt_alice", jetR, jet_pt, jet_pt_uncorrected)
             ELSE s

ChargedJetPtStar(s, jet, jet_pt, jet_pt_uncorrected, jetR) ==
    LET e == SubscriptError(self.inclusive_chjet_observables, "pt_star") IN
    IF s.err # "" THEN s
    ELSE IF e # "" THEN Raise(s, e)
    ELSE LET obs == self.inclusive_chjet_observables["pt_star"]
         IN  IF /\ centrality_accepted(obs.centrality)
                /\ InList(jetR, obs.jet_R)
                /\ Abs(jet.eta) < obs.eta_cut_R - jetR
                /\ jet_pt > obs.pt[1] /\ jet_pt < OpenUpperBound
                /\ accept_jet(jet, 5)
             THEN AppendJetPt(s, "inclusive_chjet", "pt_star", jetR, jet_pt, jet_pt_uncorrected)
             ELSE s

\* sum over the particles of pt * delta_R(particle, jet): the angularity g
\* times jet_pt
RECURSIVE SumPtDeltaR(_, _)
SumPtDeltaR(particles, jet) ==
    IF particles = <<>> THEN 0
    ELSE Head(particles).pt * delta_R(Head(particles), jet)
         + SumPtDeltaR(Tail(particles), jet)

\* sum over the particles of pt^2
RECURSIVE SumPt2(_)
SumPt2(particles) ==
    IF particles = <<>> THEN 0
    ELSE Head(particles).pt * Head(particles).pt + SumPt2(Tail(particles))

\* the cuts shared by the angularity, pTD and mass blocks
ChargedJetAccepted(obs, jet, jet_pt, jetR) ==
    /\ centrality_accepted(obs.centrality)
    /\ Abs(jet.eta) < obs.eta_cut_R - jetR
    /\ InList(jetR, obs.jet_R)
    /\ jet_pt > obs.pt[1] /\ jet_pt < obs.pt[Len(obs.pt)]

\* The angularity block.  g is kept as the pair <<g * jet_pt, jet_pt>>.  The
\* unsubtracted value is appended under the key the source spells
\* 'inclusive_chjet_g_alice_R{jetR})unsubtracted'.
ChargedJetG(s, jet, holes_in_jet, jet_pt, jetR) ==
    LET e == SubscriptError(self.inclusive_chjet_observables, "g_alice") IN
    IF s.err # "" THEN s
    ELSE IF e # "" THEN Raise(s, e)
    ELSE IF ~ChargedJetAccepted(self.inclusive_chjet_observables["g_alice"], jet, jet_pt, jetR)
    THEN s
    ELSE LET g       == SumPtDeltaR(jet.constituents, jet)
             g_holes == SumPtDeltaR(holes_in_jet, jet)
         IN  IF is_AA
             THEN LET s1 == AppendTo(s, Key("inclusive_chjet", "g_alice", jetR, ")unsubtracted"),
                                     <<g, jet_pt>>)
                  IN  AppendTo(s1, Key("inclusive_chjet", "g_alice", jetR, ""),
                               <<g - g_holes, jet_pt>>)
             ELSE AppendTo(s, Key("inclusive_chjet", "g_alice", jetR, ""), <<g, jet_pt>>)

\* the loop over holes_in_jet of the pTD block: the unsubtracted value is
\* appended in the body of the loop
RECURSIVE PtdHoleLoop(_, _, _, _)
PtdHoleLoop(s, holes, unsubtracted, jetR) ==
    IF holes = <<>> THEN s
    ELSE PtdHoleLoop(AppendTo(s, Key("inclusive_chjet", "ptd_alice", jetR, "_unsubtracted"),
                              unsubtracted),
                     Tail(holes), unsubtracted, jetR)

\* The pTD block.  np.sqrt(sum) / jet_pt is kept as the pair <<sum, jet_pt>>.
ChargedJetPtd(s, jet, holes_in_jet, jet_pt, jetR) ==
    LET e == SubscriptError(self.inclusive_chjet_observables, "ptd_alice") IN
    IF s.err # "" THEN s
    ELSE IF e # "" THEN Raise(s, e)
    ELSE IF ~ChargedJetAccepted(self.inclusive_chjet_observables["ptd_alice"], jet, jet_pt, jetR)
    THEN s
    ELSE LET sum       == SumPt2(jet.constituents)
             sum_holes == SumPt2(holes_in_jet)
         IN  IF is_AA
             THEN AppendTo(PtdHoleLoop(s, holes_in_jet, <<sum, jet_pt>>, jetR),
                           Key("inclusive_chjet", "ptd_alice", jetR, ""),
                           <<sum - sum_holes, jet_pt>>)
             ELSE AppendTo(s, Key("inclusive_chjet", "ptd_alice", jetR, ""), <<sum, jet_pt>>)

\* the invariant mass of the sum of the four-vectors of the particles; the
\* four-vector algebra belongs to fastjet and the mass is left uninterpreted
Mass(particles) == [m |-> particles]

\* The mass block: entries [jet_pt, jet_mass]
ChargedJetMass(s, jet, holes_in_jet, jet_pt, jetR) ==
    LET e == SubscriptError(self.inclusive_chjet_observables, "mass_alice") IN
    IF s.err # "" THEN s
    ELSE IF e # "" THEN Raise(s, e)
    ELSE IF ~ChargedJetAccepted(self.inclusive_chjet_observables["mass_alice"], jet, jet_pt, jetR)
    THEN s
    ELSE LET jet_mass       == Mass(jet.constituents)
             jet_mass_holes == Mass(holes_in_jet)
         IN  IF is_AA
             THEN AppendTo(AppendTo(s, Key("inclusive_chjet", "mass_alice", jetR, "_unsubtracted"),
                                    <<jet_pt, jet_mass>>),
                           Key("inclusive_chjet", "mass_alice", jetR, ""),
                           <<jet_pt, [minuend |-> jet_mass, subtrahend |-> jet_mass_holes]>>)
             ELSE AppendTo(s, Key("inclusive_chjet", "mass_alice", jetR, ""),
                           <<jet_pt, jet_mass>>)

\* The charged-jet observables: RAA, angularity, pTD and mass for ALICE at
\* 2760, RAA for STAR at 200
fill_charged_jet_ungroomed_observables(s, jet, holes_in_jet, jet_pt, jet_pt_uncorrected, jetR) ==
    IF self.sqrts = 2760 THEN
        LET s1 == ChargedJetPtAlice(s, jet, jet_pt, jet_pt_uncorrected, jetR)
            s2 == ChargedJetG(s1, jet, holes_in_jet, jet_pt, jetR)
            s3 == ChargedJetPtd(s2, jet, holes_in_jet, jet_pt, jetR)
        IN  ChargedJetMass(s3, jet, holes_in_jet, jet_pt, jetR)
    ELSE IF self.sqrts = 200 THEN ChargedJetPtStar(s, jet, jet_pt, jet_pt_uncorrected, jetR)
    ELSE s

\* fjcontrib.GroomerShop(jet, jetR, fj.cambridge_algorithm).soft_drop(beta,
\* zcut, jetR) of the external library, for the jets of the model: the
\* constituents on the jet axis are one prong and the others (which the
\* events of the model put at one place) the other.  With beta = 0 the
\* splitting is tagged when the softer prong carries more than zcut of the
\* pt; z is kept as the pair <<softer pt * 10, pt>> against zcut in units
\* of 0.1.  An untagged jet gives negative z and Delta.
soft_drop(jet, beta, zcut, jetR) ==
    LET on_axis  == SelectSeq(jet.constituents, LAMBDA p : Dist2(jet, p) = 0)
        off_axis == SelectSeq(jet.constituents, LAMBDA p : Dist2(jet, p) # 0)
        softer   == IF SumPt(on_axis) < SumPt(off_axis)
                    THEN SumPt(on_axis) ELSE SumPt(off_axis)
    IN  IF off_axis # <<>> /\ softer * 10 > zcut * jet.pt
        THEN [z |-> <<softer, jet.pt>>, Delta |-> delta_R(off_axis[1], jet),
              pair |-> jet.constituents]
        ELSE [z |-> <<-1, 1>>, Delta |-> -1, pair |-> <<>>]

\* one groomed observable of fill_full_jet_groomed_observables
FullJetGroomed(s, name, value, grooming_setting, jet, jet_pt, jetR) ==
    LET e == SubscriptError(self.inclusive_jet_observables, name) IN
    IF s.err # "" THEN s
    ELSE IF e # "" THEN Raise(s, e)
    ELSE LET obs == self.inclusive_jet_observables[name]
             jet_groomed_lund == soft_drop(jet, grooming_setting.beta,
                                           grooming_setting.zcut, jetR)
         IN  IF /\ centrality_accepted(obs.centrality)
                /\ InList(grooming_setting, obs.SoftDrop)
                /\ InList(jetR, obs.jet_R)
                /\ Abs(jet.eta) < obs.eta_cut
                /\ jet_pt > obs.pt[1] /\ jet_pt < obs.pt[Len(obs.pt)]
                /\ jet_groomed_lund.Delta > obs.dR
             THEN AppendTo(s, Key("inclusive_jet", name, jetR, SoftDropSuffix(grooming_setting)),
                           <<jet_pt, value>>)
             ELSE s

\* fill_full_jet_groomed_observables; mg = pair().m() / jet_pt is kept as
\* the pair <<mass, jet_pt>>.  The object soft_drop returns is taken to be
\* true in `if not jet_groomed_lund`.
fill_full_jet_groomed_observables(s, grooming_setting, jet, jet_pt, jetR) ==
    LET jet_groomed_lund == soft_drop(jet, grooming_setting.beta, grooming_setting.zcut, jetR)
    IN  IF self.sqrts = 5020
        THEN LET s1 == FullJetGroomed(s, "mg_cms", <<Mass(jet_groomed_lund.pair), jet_pt>>,
                                      grooming_setting, jet, jet_pt, jetR)
             IN  FullJetGroomed(s1, "zg_cms", jet_groomed_lund.z,
                                grooming_setting, jet, jet_pt, jetR)
        ELSE s

\* fill_charged_jet_groomed_observables; theta_g = Delta / jetR is kept as
\* the pair <<Delta, jetR>>
fill_charged_jet_groomed_observables(s, grooming_setting, jet, jet_pt, jetR) ==
    LET e == SubscriptError(self.inclusive_chjet_observables, "zg_alice")
        jet_groomed_lund == soft_drop(jet, grooming_setting.beta, grooming_setting.zcut, jetR)
    IN  IF s.err # "" \/ self.sqrts # 5020 THEN s
        ELSE IF e # "" THEN Raise(s, e)
        ELSE LET obs == self.inclusive_chjet_observables["zg_alice"]
                 suffix == SoftDropSuffix(grooming_setting)
             IN  IF /\ centrality_accepted(obs.centrality)
                    /\ InList(grooming_setting, obs.SoftDrop)
                    /\ ChargedJetAccepted(obs, jet, jet_pt, jetR)
                 THEN AppendTo(AppendTo(s, Key("inclusive_chjet", "zg_alice", jetR, suffix),
                                        jet_groomed_lund.z),
                               Key("inclusive_chjet", "tg_alice", jetR, suffix),
                               <<jet_groomed_lund.Delta, jetR>>)
                 ELSE s

\* for grooming_setting in self.grooming_settings: the groomed fill
RECURSIVE GroomingLoop(_, _, _, _, _, _)
GroomingLoop(s, grooming_settings, jet, jet_pt, jetR, full_jet) ==
    IF grooming_settings = <<>> THEN s
    ELSE LET grooming_setting == Head(grooming_settings)
             s1 == IF full_jet
                   THEN fill_full_jet_groomed_observables(s, grooming_setting, jet, jet_pt, jetR)
                   ELSE fill_charged_jet_groomed_observables(s, grooming_setting, jet,
                                                             jet_pt, jetR)
         IN  GroomingLoop(s1, Tail(grooming_settings), jet, jet_pt, jetR, full_jet)

\* analyze_inclusive_jet: hole subtraction, then the ungroomed fill and,
\* with grooming settings, the groomed fill per setting
analyze_inclusive_jet(s, jet, fj_hadrons_positive, fj_hadrons_negative, jetR, full_jet) ==
    LET h  == HoleSubtraction(jet, fj_hadrons_negative, jetR, is_AA)
        s1 == IF full_jet
              THEN fill_full_jet_ungroomed_observables(s, jet, fj_hadrons_positive,
                                                       h.holes_in_jet, h.jet_pt,
                                                       h.jet_pt_uncorrected, jetR)
              ELSE fill_charged_jet_ungroomed_observables(s, jet, h.holes_in_jet, h.jet_pt,
                                                          h.jet_pt_uncorrected, jetR)
    IN  GroomingLoop(s1, self.grooming_settings, jet, h.jet_pt, jetR, full_jet)

----------------------------------------------------------------------------
(* Semi-inclusive (hadron-triggered) charged jet observables *)

\* np.pi - 0.6 = 2.54 in units of 0.1: |delta_phi| > np.pi - 0.6
HJetDeltaPhiMin == 25

\* the sum of hole pt inside the jet cone, as the inline loops of
\* fill_semi_inclusive_chjet_observables, fill_dijet_observables and
\* leading_jet compute it
RECURSIVE HolePtInCone(_, _, _)
HolePtInCone(jet, fj_hadrons_negative, jetR) ==
    IF fj_hadrons_negative = <<>> THEN 0
    ELSE (IF Dist2(jet, Head(fj_hadrons_negative)) < jetR * jetR
          THEN Head(fj_hadrons_negative).pt ELSE 0)
         + HolePtInCone(jet, Tail(fj_hadrons_negative), jetR)

\* the corrected jet pt of a recoil jet: shower+recoil-holes
RecoilJetPt(jet, fj_hadrons_negative_charged, jetR) ==
    IF is_AA
    THEN [jet_pt_unsubtracted |-> jet.pt,
          jet_pt |-> jet.pt - HolePtInCone(jet, fj_hadrons_negative_charged, jetR)]
    ELSE [jet_pt_unsubtracted |-> jet.pt, jet_pt |-> jet.pt]

Between(lo, x, hi) == lo < x /\ x < hi

\* the yield and Delta phi appends of one trigger class (ALICE)
HJetAlice(s, hadron, jet, jetR, jet_pt, jet_pt_unsubtracted, trigger) ==
    LET si == self.semi_inclusive_chjet_observables
        s1 == IF /\ InList(jetR, si["IAA_alice"].jet_R)
                 /\ Abs(DeltaPhi(jet, hadron)) > HJetDeltaPhiMin
                 /\ Between(si["IAA_alice"].pt[1], jet_pt, si["IAA_alice"].pt[2])
              THEN LET a == AppendTo(s, Key("semi_inclusive_chjet", "IAA_alice", jetR, trigger), jet_pt)
                   IN  IF is_AA
                       THEN AppendTo(a, Key("semi_inclusive_chjet", "IAA_alice", jetR,
                                            IF trigger = "_lowTrigger"
                                            THEN "_lowTrigger_unsubtracted"
                                            ELSE "_highTrigger_unsubtracted"),
                                     jet_pt_unsubtracted)
                       ELSE a
              ELSE s
    IN  IF /\ InList(jetR, si["dphi_alice"].jet_R)
           /\ Between(si["dphi_alice"].pt[1], jet_pt, si["dphi_alice"].pt[2])
        THEN AppendTo(s1, Key("semi_inclusive_chjet", "dphi_alice", jetR, trigger),
                      Abs(DeltaPhi(hadron, jet)))
        ELSE s1

\* the body of the recoil-jet loop at 2760 GeV (the N-subjettiness ratio is
\* computed by an external calculator and is not part of the model)
RecoilJetAlice(s, hadron, jet, fj_hadrons_negative_charged, jetR, found_low, found_high) ==
    LET si == self.semi_inclusive_chjet_observables IN
    IF s.err # "" THEN s
    ELSE IF Abs(jet.eta) < si["IAA_alice"].eta_cut_R - jetR THEN
        LET c  == RecoilJetPt(jet, fj_hadrons_negative_charged, jetR)
            s0 == Log(s, c.jet_pt, c.jet_pt_unsubtracted)
        IN  IF centrality_accepted(si["IAA_alice"].centrality) THEN
                LET s1 == IF found_low
                          THEN HJetAlice(s0, hadron, jet, jetR, c.jet_pt, c.jet_pt_unsubtracted, "_lowTrigger")
                          ELSE s0
                IN  IF found_high
                    THEN HJetAlice(s1, hadron, jet, jetR, c.jet_pt, c.jet_pt_unsubtracted, "_highTrigger")
                    ELSE s1
            ELSE s0
    ELSE s

RECURSIVE RecoilLoopAlice(_, _, _, _, _, _, _)
RecoilLoopAlice(s, hadron, jets, negs, jetR, found_low, found_high) ==
    IF jets = <<>> THEN s
    ELSE RecoilLoopAlice(RecoilJetAlice(s, hadron, Head(jets), negs, jetR, found_low, found_high),
                         hadron, Tail(jets), negs, jetR, found_low, found_high)

\* min() of a non-empty configuration list
MinOf(list) == CHOOSE x \in Elems(list) : \A y \in Elems(list) : x <= y

\* the body of the trigger-hadron loop at 2760 GeV
TriggerAlice(s, hadron, jets_selected, negs, jetR) ==
    LET si == self.semi_inclusive_chjet_observables
        hjet_found_low  == Between(si["IAA_alice"].low_trigger_range[1], hadron.pt,
                                   si["IAA_alice"].low_trigger_range[2])
        hjet_found_high == Between(si["IAA_alice"].high_trigger_range[1], hadron.pt,
                                   si["IAA_alice"].high_trigger_range[2])
        nsubjettiness_found_low  == Between(si["nsubjettiness_alice"].low_trigger_range[1], hadron.pt,
                                            si["nsubjettiness_alice"].low_trigger_range[2])
        nsubjettiness_found_high == Between(si["nsubjettiness_alice"].high_trigger_range[1], hadron.pt,
                                            si["nsubjettiness_alice"].high_trigger_range[2])
        found_trigger == hjet_found_low \/ hjet_found_high
                         \/ nsubjettiness_found_low \/ nsubjettiness_found_high
    IN  IF s.err # "" THEN s
        ELSE IF Abs(hadron.eta) < si["IAA_alice"].hadron_eta_cut /\ found_trigger THEN
            LET s1 == IF jetR = MinOf(si["IAA_alice"].jet_R)
                      THEN AppendTo(s, Key("semi_inclusive_chjet", "alice_trigger_pt", 0, ""), hadron.pt)
                      ELSE s
            IN  RecoilLoopAlice(s1, hadron, jets_selected, negs, jetR, hjet_found_low, hjet_found_high)
        ELSE s

\* the body of the recoil-jet loop at 200 GeV
RecoilJetStar(s, hadron, jet, fj_hadrons_negative_charged, jetR) ==
    LET si == self.semi_inclusive_chjet_observables IN
    IF s.err # "" THEN s
    ELSE IF Abs(jet.eta) < si["IAA_star"].eta_cut_R - jetR THEN
        LET c  == RecoilJetPt(jet, fj_hadrons_negative_charged, jetR)
            s0 == Log(s, c.jet_pt, c.jet_pt_unsubtracted)
        IN  IF centrality_accepted(si["IAA_star"].centrality) THEN
                LET s1 == IF /\ InList(jetR, si["IAA_star"].jet_R)
                             /\ Abs(DeltaPhi(jet, hadron)) > HJetDeltaPhiMin
                             /\ Between(si["IAA_star"].pt[1], c.jet_pt, si["IAA_star"].pt[2])
                          THEN LET a == AppendTo(s0, Key("semi_inclusive_chjet", "IAA_star", jetR, ""), c.jet_pt)
                               IN  IF is_AA
                                   THEN AppendTo(a, Key("semi_inclusive_chjet", "IAA_star", jetR, "_unsubtracted"),
                                                 c.jet_pt_unsubtracted)
                                   ELSE a
                          ELSE s0
                IN  IF /\ InList(jetR, si["dphi_star"].jet_R)
                       /\ Between(si["dphi_star"].pt[1], c.jet_pt, si["dphi_star"].pt[2])
                    THEN AppendTo(s1, Key("semi_inclusive_chjet", "dphi_star", jetR, ""),
                                  Abs(DeltaPhi(hadron, jet)))
                    ELSE s1
            ELSE s0
    ELSE s

RECURSIVE RecoilLoopStar(_, _, _, _, _)
RecoilLoopStar(s, hadron, jets, negs, jetR) ==
    IF jets = <<>> THEN s
    ELSE RecoilLoopStar(RecoilJetStar(s, hadron, Head(jets), negs, jetR),
                        hadron, Tail(jets), negs, jetR)

\* the body of the trigger-hadron loop at 200 GeV
TriggerStar(s, hadron, jets_selected, negs, jetR) ==
    LET si == self.semi_inclusive_chjet_observables
        found_trigger == Between(si["IAA_star"].trigger_range[1], hadron.pt,
                                 si["IAA_star"].trigger_range[2])
    IN  IF s.err # "" THEN s
        ELSE IF Abs(hadron.eta) < si["IAA_star"].hadron_eta_cut /\ found_trigger THEN
            LET s1 == IF jetR = MinOf(si["IAA_star"].jet_R)
                      THEN AppendTo(s, Key("semi_inclusive_chjet", "star_trigger_pt", 0, ""), hadron.pt)
                      ELSE s
            IN  RecoilLoopStar(s1, hadron, jets_selected, negs, jetR)
        ELSE s

RECURSIVE TriggerLoop(_, _, _, _, _)
TriggerLoop(s, hadrons, jets_selected, negs, jetR) ==
    IF hadrons = <<>> THEN s
    ELSE LET s1 == IF self.sqrts = 2760
                   THEN TriggerAlice(s, Head(hadrons), jets_selected, negs, jetR)
                   ELSE IF self.sqrts = 200
                   THEN TriggerStar(s, Head(hadrons), jets_selected, negs, jetR)
                   ELSE s
         IN  TriggerLoop(s1, Tail(hadrons), jets_selected, negs, jetR)

fill_semi_inclusive_chjet_observables(s, jets_selected, positive_charged, negative_charged, jetR) ==
    TriggerLoop(s, positive_charged, jets_selected, negative_charged, jetR)

----------------------------------------------------------------------------
(* Dijet observables *)

\* 7*np.pi/8 = 2.75 in units of 0.1: |delta_phi| > 7*np.pi/8
DijetDeltaPhiMin == 27

\* the loop of leading_jet over jets[from..]: the pair (leading_jet,
\* leading_jet_pt); a jet-or-None is a sequence of at most one jet
RECURSIVE LeadingLoop_LastOnTies(_, _, _, _)
LeadingLoop_LastOnTies(jets, fj_hadrons_negative, jetR, acc) ==
    IF jets = <<>> THEN acc
    ELSE LET jet    == Head(jets)
             jet_pt == jet.pt - HolePtInCone(jet, fj_hadrons_negative, jetR)
             next   == IF acc.leading_jet = <<>> \/ jet_pt >= acc.leading_jet_pt
                       THEN [leading_jet |-> <<jet>>, leading_jet_pt |-> jet_pt]
                       ELSE acc
         IN  LeadingLoop_LastOnTies(Tail(jets), fj_hadrons_negative, jetR, next)

RECURSIVE LeadingLoop(_, _, _, _)
LeadingLoop(jets, fj_hadrons_negative, jetR, acc) ==
    IF jets = <<>> THEN acc
    ELSE LET jet    == Head(jets)
             jet_pt == jet.pt - HolePtInCone(jet, fj_hadrons_negative, jetR)
             first  == IF acc.leading_jet = <<>>
                       THEN [leading_jet |-> <<jet>>, leading_jet_pt |-> jet_pt]
                       ELSE acc
             next   == IF jet_pt > first.leading_jet_pt
                       THEN [leading_jet |-> <<jet>>, leading_jet_pt |-> jet_pt]
                       ELSE first
         IN  LeadingLoop(Tail(jets), fj_hadrons_negative, jetR, next)

\* leading_jet: (leading_jet, leading_jet_pt, i), i being the loop variable
\* of enumerate(jets) after the loop (0 when jets is empty)
leading_jet(jets, fj_hadrons_negative, jetR) ==
    LET r == LeadingLoop(jets, fj_hadrons_negative, jetR,
                         [leading_jet |-> <<>>, leading_jet_pt |-> 0])
    IN  [leading_jet    |-> r.leading_jet,
         leading_jet_pt |-> r.leading_jet_pt,
         i              |-> IF jets = <<>> THEN 0 ELSE Len(jets) - 1]

\* del list[i], i counted from 0
Del(list, i) == [k \in 1..(Len(list) - 1) |-> IF k <= i THEN list[k] ELSE list[k + 1]]

\* the candidate selection of fill_dijet_observables
DijetCandidate(jet, fj_hadrons_negative, jetR) ==
    LET jet_pt == IF is_AA
                  THEN jet.pt - HolePtInCone(jet, fj_hadrons_negative, jetR)
                  ELSE jet.pt
        obs    == self.dijet_observables["xj_atlas"]
    IN  jet_pt > obs.pt_subleading_min /\ Abs(jet.eta) < obs.eta_cut

\* the locals of fill_dijet_observables once centrality and jetR are accepted
DijetLocals(jets_selected, fj_hadrons_negative, jetR) ==
    LET jet_candidates == SelectSeq(jets_selected,
                              LAMBDA jet : DijetCandidate(jet, fj_hadrons_negative, jetR))
        lead           == leading_jet(jet_candidates, fj_hadrons_negative, jetR)
        remaining      == IF lead.leading_jet # <<>>
                          THEN Del(jet_candidates, lead.i)
                          ELSE jet_candidates
        sub            == IF lead.leading_jet # <<>>
                          THEN leading_jet(remaining, fj_hadrons_negative, jetR)
                          ELSE [leading_jet |-> <<>>, leading_jet_pt |-> 0, i |-> 0]
    IN  [jets_selected      |-> jets_selected,
         fj_hadrons_negative |-> fj_hadrons_negative,
         jetR               |-> jetR,
         jet_candidates     |-> jet_candidates,
         leading_jet        |-> lead.leading_jet,
         leading_jet_pt     |-> lead.leading_jet_pt,
         i_leading_jet      |-> lead.i,
         remaining          |-> remaining,
         subleading_jet     |-> sub.leading_jet,
         subleading_jet_pt  |-> sub.leading_jet_pt]

\* whether fill_dijet_observables reaches the search for the leading jets
DijetEntered(jetR) ==
    /\ self.sqrts = 2760
    /\ centrality_accepted(self.dijet_observables["xj_atlas"].centrality)
    /\ InList(jetR, self.dijet_observables["xj_atlas"].jet_R)

\* fill_dijet_observables; xj = subleading_jet_pt / leading_jet_pt is kept
\* as the pair <<subleading_jet_pt, leading_jet_pt>>
fill_dijet_observables(s, jets_selected, fj_hadrons_negative, jetR) ==
    IF s.err # "" \/ ~DijetEntered(jetR) THEN s
    ELSE LET l == DijetLocals(jets_selected, fj_hadrons_negative, jetR)
         IN  IF /\ l.leading_jet # <<>>
                /\ l.subleading_jet # <<>>
                /\ Abs(DeltaPhi(l.leading_jet[1], l.subleading_jet[1])) > DijetDeltaPhiMin
                /\ l.leading_jet_pt > self.dijet_observables["xj_atlas"].pt_leading_min
             THEN AppendTo(s, Key("dijet", "xj_atlas", jetR, ""),
                           <<l.subleading_jet_pt, l.leading_jet_pt>>)
             ELSE s

----------------------------------------------------------------------------
(* The processes: __main__, analyze_event and its steps *)

Events == IF scope = "repeat"
          THEN EventsUpTo(SeqParticleChoices, MaxSeqParticles)
          ELSE IF program = "STAT" /\ self.grooming_settings # <<>>
          THEN EventsUpTo(GroomedParticleChoices, MaxParticles)
          ELSE EventsUpTo(ParticleChoices, MaxParticles)

\* The runs: a configuration document, the collision system and the
\* centrality bin of the input file.  Peripheral runs use the 2760 GeV
\* document with every block; repeated analysis uses that document only.
Runs ==
    IF scope = "repeat"
    THEN { [cfg |-> ConfigFile(2760, TRUE), AA |-> AA, centrality |-> 0] : AA \in BOOLEAN }
    ELSE { [cfg |-> cfg, AA |-> AA, centrality |-> 0] : cfg \in ConfigFiles, AA \in BOOLEAN }
         \cup { [cfg |-> ConfigFile(2760, TRUE), AA |-> AA, centrality |-> 1] : AA \in BOOLEAN }
         \cup { [cfg |-> cfg, AA |-> AA, centrality |-> 0]
                : cfg \in GroomedConfigFiles, AA \in BOOLEAN }

\* the pids handed to charge() directly: the documented species and others
PidChoices ==
    { sign * pid : sign \in {1, -1},
                   pid \in ChargedPids \cup {22, 111, 2112, 130, 310, 0} }

\* members of the TG3 analysis used by its jet loop
TG3_initialize_user_config == [jetR_list |-> <<2, 4>>, min_jet_pt |-> 10]

\* fj.SelectorAbsRapMax(5.) of TG3's analyze_event
TG3_AbsRapMax == 50

Start(prog, sc) ==
    /\ program = prog
    /\ scope = sc
    /\ pc = "start"
    /\ self = None
    /\ is_AA = FALSE
    /\ centrality = 0
    /\ event = <<>>
    /\ observable_dict_event = EmptyDict
    /\ error = ""
    /\ exit_status = -1
    /\ printed = <<>>
    /\ r_idx = 0
    /\ stage = ""
    /\ jet_calls = <<>>
    /\ last_semi = <<>>
    /\ last_dijet = <<>>
    /\ charge_result = <<>>
    /\ leading_result = <<>>
    /\ appended = EmptyDict
    /\ first_run = <<>>

Init == \E prog \in {"STAT", "TG3"} : Start(prog, "single")

InitRepeat == Start("STAT", "repeat")

\* __main__ with a configFile or inputFile that does not exist
MainMissingFile ==
    /\ pc = "start"
    /\ \E config_exists, input_exists \in BOOLEAN :
          /\ ~config_exists \/ ~input_exists
          /\ printed' = Append(printed,
                 <<"File does not exist! Exiting!",
                   IF ~config_exists THEN "configFile" ELSE "inputFile">>)
    /\ exit_status' = 0
    /\ pc' = "exited"
    /\ UNCHANGED <<program, self, is_AA, centrality, event, observable_dict_event, error,
                   r_idx, stage, jet_calls, last_semi, last_dijet, charge_result, leading_result,
                   appended, first_run, scope>>

\* __main__ with both files present: the analysis object is constructed
MainConstruct ==
    /\ pc = "start"
    /\ IF program = "STAT"
       THEN \E run \in Runs :
               /\ self' = initialize_user_config(run.cfg)
               /\ is_AA' = run.AA
               /\ centrality' = run.centrality
       ELSE /\ self' = TG3_initialize_user_config
            /\ UNCHANGED <<is_AA, centrality>>
    /\ pc' = "idle"
    /\ UNCHANGED <<program, event, observable_dict_event, error, exit_status, printed,
                   r_idx, stage, jet_calls, last_semi, last_dijet, charge_result, leading_result,
                   appended, first_run, scope>>

\* the jet radius of the current pass of the loop
JetR == IF program = "STAT" THEN self.jet_R[r_idx] ELSE self.jetR_list[r_idx]

NumJetR == IF program = "STAT" THEN Len(self.jet_R) ELSE Len(self.jetR_list)

fj_hadrons_positive == fill_fastjet_constituents(event, "+", FALSE)
fj_hadrons_negative == fill_fastjet_constituents(event, "-", FALSE)
fj_hadrons_positive_charged == fill_fastjet_constituents(event, "+", TRUE)
fj_hadrons_negative_charged == fill_fastjet_constituents(event, "-", TRUE)

MaxRap == IF program = "STAT" THEN self.max_jet_y ELSE TG3_AbsRapMax

\* mutant of jets_selected: the holes are clustered along with the rest
jets_selected_HolesClustered ==
    jets_selected_of(fj_hadrons_positive \o fj_hadrons_negative, JetR, self.min_jet_pt, MaxRap)

jets_selected == jets_selected_of(fj_hadrons_positive, JetR, self.min_jet_pt, MaxRap)
jets_selected_charged ==
    jets_selected_of(fj_hadrons_positive_charged, JetR, self.min_jet_pt, MaxRap)

\* history of the appends: what the step from container old to container new added
Added(old, new) ==
    [ k \in DOMAIN new |->
        (IF k \in DOMAIN appended THEN appended[k] ELSE <<>>)
        \o (IF k \in DOMAIN old
            THEN SubSeq(new[k], Len(old[k]) + 1, Len(new[k]))
            ELSE new[k]) ]

\* the container after a step; an exception ends the run with a traceback
Store(s) ==
    /\ observable_dict_event' = s.d
    /\ appended' = Added(observable_dict_event, s.d)
    /\ error' = s.err
    /\ exit_status' = IF s.err # "" THEN 1 ELSE exit_status

\* history: the first event analysed to its end and what it left behind,
\* whether another event was analysed since, and whether the first event
\* was analysed again after that
Remember(s) ==
    first_run' =
        IF scope # "repeat" THEN first_run
        ELSE IF first_run = <<>>
        THEN << [event |-> event, d |-> s.d, err |-> s.err,
                 other |-> FALSE, again |-> FALSE] >>
        ELSE IF event # first_run[1].event
        THEN << [first_run[1] EXCEPT !.other = TRUE] >>
        ELSE << [first_run[1] EXCEPT !.again = first_run[1].other] >>

\* where the process stands after analyze_event returned: the input file
\* of a "single" run holds one event
AfterEvent == IF scope = "repeat" THEN "idle" ELSE "done"

\* analyze_event, up to and including initialize_output_lists
BeginEvent ==
    /\ program = "STAT"
    /\ pc = "idle"
    /\ observable_dict_event' = initialize_output_lists(observable_dict_event)
    /\ appended' = [k \in DOMAIN observable_dict_event' |-> <<>>]
    /\ pc' = "hadrons"
    /\ jet_calls' = <<>>
    /\ last_semi' = <<>>
    /\ last_dijet' = <<>>
    /\ charge_result' = <<>>
    /\ leading_result' = <<>>
    /\ \E ev \in Events : event' = ev
    /\ UNCHANGED <<program, self, is_AA, centrality, error, exit_status, printed,
                   r_idx, stage, first_run, scope>>

\* the hadron fills of analyze_event
FillHadrons ==
    /\ pc = "hadrons"
    /\ LET s1 == fill_hadron_observables(Running(observable_dict_event),
                                         fj_hadrons_positive, "+")
           s2 == IF is_AA
                 THEN fill_hadron_observables(s1, fj_hadrons_negative, "-")
                 ELSE s1
       IN  /\ Store(s2)
           /\ IF s2.err # ""
              THEN pc' = "error" /\ Remember(s2) /\ UNCHANGED <<r_idx, stage>>
              ELSE /\ pc' = "jets" /\ r_idx' = 1 /\ stage' = "full"
                   /\ UNCHANGED first_run
    /\ UNCHANGED <<program, self, is_AA, centrality, event, printed,
                   jet_calls, last_semi, last_dijet, charge_result, leading_result, scope>>

\* the locals of one hole subtraction, kept for inspection
JetLocals(jet, negs, jetR, h) ==
    [jet |-> jet, fj_hadrons_negative |-> negs, jetR |-> jetR,
     jet_pt |-> h.jet_pt, jet_pt_uncorrected |-> h.jet_pt_uncorrected,
     holes_in_jet |-> h.holes_in_jet]

\* [analyze_inclusive_jet(jet, ...) for jet in jets]: the running state
\* threaded through the calls; an exception ends the comprehension
RECURSIVE InclusiveJetLoop(_, _, _, _, _, _)
InclusiveJetLoop(s, jets, poss, negs, jetR, full_jet) ==
    IF jets = <<>> \/ s.err # "" THEN s
    ELSE InclusiveJetLoop(analyze_inclusive_jet(s, Head(jets), poss, negs, jetR, full_jet),
                          Tail(jets), poss, negs, jetR, full_jet)

\* the locals of the calls of such a comprehension
InclusiveJetCalls(jets, negs, jetR) ==
    [ i \in 1..Len(jets) |->
        JetLocals(jets[i], negs, jetR, HoleSubtraction(jets[i], negs, jetR, is_AA)) ]

\* the full jets of one jet radius
AnalyzeFullJets ==
    /\ program = "STAT" /\ pc = "jets" /\ stage = "full"
    /\ LET s == InclusiveJetLoop(Running(observable_dict_event), jets_selected,
                                 fj_hadrons_positive, fj_hadrons_negative, JetR, TRUE)
       IN  /\ Store(s)
           /\ jet_calls' = InclusiveJetCalls(jets_selected, fj_hadrons_negative, JetR)
           /\ IF s.err # ""
              THEN pc' = "error" /\ Remember(s) /\ UNCHANGED stage
              ELSE pc' = pc /\ stage' = "charged" /\ UNCHANGED first_run
    /\ UNCHANGED <<program, self, is_AA, centrality, event, printed, r_idx,
                   last_semi, last_dijet, charge_result, leading_result, scope>>

\* the charged jets of one jet radius
AnalyzeChargedJets ==
    /\ program = "STAT" /\ pc = "jets" /\ stage = "charged"
    /\ LET s == InclusiveJetLoop(Running(observable_dict_event), jets_selected_charged,
                                 fj_hadrons_positive_charged, fj_hadrons_negative_charged,
                                 JetR, FALSE)
       IN  /\ Store(s)
           /\ jet_calls' = InclusiveJetCalls(jets_selected_charged,
                                             fj_hadrons_negative_charged, JetR)
           /\ IF s.err # ""
              THEN pc' = "error" /\ Remember(s) /\ UNCHANGED stage
              ELSE pc' = pc /\ stage' = "semi" /\ UNCHANGED first_run
    /\ UNCHANGED <<program, self, is_AA, centrality, event, printed, r_idx,
                   last_semi, last_dijet, charge_result, leading_result, scope>>

\* python's list + list, with aliasing made explicit: the result is a new
\* list and the left operand is what it was (an in-place += or extend would
\* change it)
ListAdd_InPlace(a, b) == [result |-> a \o b, left |-> a \o b]

ListAdd(a, b) == [result |-> a \o b, left |-> a]

\* the semi-inclusive part of the loop body of analyze_event; jetR_list is
\* bound only at 2760 and 200 GeV, at 2760 GeV to the sum of two lists of
\* the configuration
FillSemiInclusive ==
    /\ program = "STAT" /\ pc = "jets" /\ stage = "semi"
    /\ LET si == self.semi_inclusive_chjet_observables
           s0 == Running(observable_dict_event)
           summed == Truthy(si) /\ self.sqrts = 2760
           sum == IF summed
                  THEN ListAdd(si["IAA_alice"].jet_R, si["nsubjettiness_alice"].jet_R)
                  ELSE [result |-> <<>>, left |-> <<>>]
           s  == IF ~Truthy(si) THEN s0
                 ELSE IF self.sqrts \notin {2760, 200} THEN Raise(s0, "UnboundLocalError")
                 ELSE LET jetR_list == IF self.sqrts = 2760
                                       THEN sum.result
                                       ELSE si["IAA_star"].jet_R
                      IN  IF InList(JetR, jetR_list)
                          THEN fill_semi_inclusive_chjet_observables(s0, jets_selected_charged,
                                   fj_hadrons_positive_charged, fj_hadrons_negative_charged, JetR)
                          ELSE s0
       IN  /\ Store(s)
           /\ self' = IF summed
                      THEN [self EXCEPT
                              !.semi_inclusive_chjet_observables["IAA_alice"].jet_R = sum.left]
                      ELSE self
           /\ last_semi' = s.log
           /\ IF s.err # ""
              THEN pc' = "error" /\ Remember(s) /\ UNCHANGED stage
              ELSE pc' = pc /\ stage' = "dijet" /\ UNCHANGED first_run
    /\ UNCHANGED <<program, is_AA, centrality, event, printed, r_idx,
                   jet_calls, last_dijet, charge_result, leading_result, scope>>

\* the dijet part of the loop body, then the next jet radius or the end of
\* analyze_event
FillDijet ==
    /\ program = "STAT" /\ pc = "jets" /\ stage = "dijet"
    /\ LET s0 == Running(observable_dict_event)
           s  == IF Truthy(self.dijet_observables)
                 THEN fill_dijet_observables(s0, jets_selected, fj_hadrons_negative, JetR)
                 ELSE s0
       IN  /\ Store(s)
           /\ last_dijet' = IF Truthy(self.dijet_observables) /\ DijetEntered(JetR)
                            THEN << DijetLocals(jets_selected, fj_hadrons_negative, JetR) >>
                            ELSE <<>>
           /\ IF s.err # ""
              THEN pc' = "error" /\ Remember(s) /\ UNCHANGED <<r_idx, stage>>
              ELSE IF r_idx < NumJetR
              THEN /\ pc' = pc /\ r_idx' = r_idx + 1 /\ stage' = "full"
                   /\ UNCHANGED first_run
              ELSE /\ pc' = AfterEvent /\ Remember(s) /\ UNCHANGED <<r_idx, stage>>
    /\ UNCHANGED <<program, self, is_AA, centrality, event, printed,
                   jet_calls, last_semi, charge_result, leading_result, scope>>

\* a direct lookup charge(pid), made twice in a row
ChargeCall ==
    /\ program = "STAT" /\ pc = "idle"
    /\ \E pid \in PidChoices :
         LET r == charge(pid) IN
         IF r.returned
         THEN /\ charge_result' = << [pid |-> pid, value |-> r.value,
                                      again |-> charge(pid).value] >>
              /\ UNCHANGED <<pc, exit_status, printed>>
         ELSE /\ charge_result' = << [pid |-> pid] >>
              /\ printed' = Append(printed, r.message)
              /\ exit_status' = 1
              /\ pc' = "exited"
    /\ UNCHANGED <<program, self, is_AA, centrality, event, observable_dict_event, error,
                   r_idx, stage, jet_calls, last_semi, last_dijet, leading_result,
                   appended, first_run, scope>>

\* the jets handed to leading_jet directly: three jets of one particle each
DirectJets ==
    { ClusterSequence(<<p>>, 4)[1] :
        p \in { [status |-> "+", pt |-> 25, eta |-> 0,  phi |-> 0,  pid |-> 211],
                [status |-> "+", pt |-> 4,  eta |-> 0,  phi |-> 30, pid |-> -321],
                [status |-> "+", pt |-> 20, eta |-> 10, phi |-> 0,  pid |-> 211] } }

\* lists of distinct jets, in any order
DirectJetLists ==
    { jets \in EventsUpTo(DirectJets, MaxDirectJets) :
        \A i, j \in DOMAIN jets : i # j => jets[i] # jets[j] }

\* the hole lists handed to leading_jet directly
DirectHoleLists ==
    EventsUpTo({ p \in ParticleChoices : p.status = "-" }, MaxSeqParticles)

\* a direct call leading_jet(jets, fj_hadrons_negative, jetR) on an object
\* that has served no other direct call; the process ends with it
LeadingJetCall ==
    /\ program = "STAT" /\ pc = "idle"
    /\ charge_result = <<>> /\ leading_result = <<>>
    /\ pc' = "called"
    /\ \E jets \in DirectJetLists, negs \in DirectHoleLists, jetR \in {2, 4} :
         LET r == leading_jet(jets, negs, jetR)
         IN  leading_result' = << [jets |-> jets, fj_hadrons_negative |-> negs, jetR |-> jetR,
                                   leading_jet |-> r.leading_jet,
                                   leading_jet_pt |-> r.leading_jet_pt, i |-> r.i] >>
    /\ UNCHANGED <<program, self, is_AA, centrality, event, observable_dict_event,
                   error, exit_status, printed, r_idx, stage, jet_calls, last_semi,
                   last_dijet, charge_result, appended, first_run, scope>>

\* TG3's analyze_event up to the loop over jet radii (its histograms are
\* external objects and not part of the model)
TG3_BeginEvent ==
    /\ program = "TG3" /\ pc = "idle"
    /\ pc' = "jets" /\ r_idx' = 1 /\ stage' = "full"
    /\ jet_calls' = <<>>
    /\ \E ev \in Events : event' = ev
    /\ UNCHANGED <<program, self, is_AA, centrality, observable_dict_event, error,
                   exit_status, printed, last_semi, last_dijet, charge_result, leading_result,
                   appended, first_run, scope>>

\* the locals of the passes of the jet loop of TG3's fill_jet_histograms
TG3_JetCalls(jets, negs, jetR) ==
    [ i \in 1..Len(jets) |->
        JetLocals(jets[i], negs, jetR, TG3_HoleSubtraction(jets[i], negs, jetR)) ]

\* one call of TG3's fill_jet_histograms: full jets, then charged jets, then
\* the next radius or the end of analyze_event
TG3_fill_jet_histograms ==
    /\ program = "TG3" /\ pc = "jets"
    /\ jet_calls' = IF stage = "full"
                    THEN TG3_JetCalls(jets_selected, fj_hadrons_negative, JetR)
                    ELSE TG3_JetCalls(jets_selected_charged, fj_hadrons_negative_charged, JetR)
    /\ IF stage = "full"
       THEN pc' = pc /\ stage' = "charged" /\ UNCHANGED r_idx
       ELSE IF r_idx < NumJetR
       THEN pc' = pc /\ r_idx' = r_idx + 1 /\ stage' = "full"
       ELSE pc' = "done" /\ UNCHANGED <<r_idx, stage>>
    /\ UNCHANGED <<program, self, is_AA, centrality, event, observable_dict_event,
                   error, exit_status, printed, last_semi, last_dijet,
                   charge_result, leading_result, appended, first_run, scope>>

Next ==
    \/ MainMissingFile
    \/ MainConstruct
    \/ BeginEvent
    \/ FillHadrons
    \/ AnalyzeFullJets
    \/ AnalyzeChargedJets
    \/ FillSemiInclusive
    \/ FillDijet
    \/ ChargeCall
    \/ LeadingJetCall
    \/ TG3_BeginEvent
    \/ TG3_fill_jet_histograms

Spec == Init /\ [][Next]_vars

\* the STAT analysis fed one event after another
NextRepeat ==
    \/ MainConstruct
    \/ BeginEvent
    \/ FillHadrons
    \/ AnalyzeFullJets
    \/ AnalyzeChargedJets
    \/ FillSemiInclusive
    \/ FillDijet

SpecRepeat == InitRepeat /\ [][NextRepeat]_vars

\* ------------------------------------------------------------------
\* Properties of the hole subtraction
\* ------------------------------------------------------------------

\* the sum of the pt of the particles of list at the indices of the set I
RECURSIVE PtAt(_, _)
PtAt(list, I) ==
    IF I = {} THEN 0
    ELSE LET i == CHOOSE j \in I : TRUE
         IN  list[i].pt + PtAt(list, I \ {i})

\* the indices of the holes strictly inside the cone of the jet of a call
HolesInside(c) ==
    { i \in 1..Len(c.fj_hadrons_negative) :
        Dist2(c.jet, c.fj_hadrons_negative[i]) < c.jetR * c.jetR }

\* the hole subtraction is in force for the calls of jet_calls
Subtracting == program = "TG3" \/ is_AA

\* C1: in AA mode (and in TG3, which always subtracts) the corrected pt of
\* every analysed jet is its uncorrected pt minus the sum of the pt of the
\* holes with delta_R < jetR, and holes_in_jet holds exactly those holes,
\* in the order of the input list.
C1_HoleSubtraction ==
    Subtracting =>
        \A n \in DOMAIN jet_calls :
            LET c == jet_calls[n] IN
            /\ c.jet_pt_uncorrected = c.jet.pt
            /\ c.jet_pt = c.jet_pt_uncorrected - PtAt(c.fj_hadrons_negative, HolesInside(c))
            /\ c.holes_in_jet =
                  SelectSeq(c.fj_hadrons_negative,
                            LAMBDA h : Dist2(c.jet, h) < c.jetR * c.jetR)

\* C1 witness: an AA event of the STAT analysis with a jet that has two
\* holes in its cone
C1_Witness ==
    /\ program = "STAT" /\ is_AA
    /\ \E n \in DOMAIN jet_calls :
          /\ Len(jet_calls[n].holes_in_jet) = 2
          /\ jet_calls[n].jet_pt < jet_calls[n].jet_pt_uncorrected

\* C2: when the event has holes and all of them lie strictly outside the
\* cone of a jet, the corrected pt of that jet equals its uncorrected pt and
\* holes_in_jet is empty.
C2_HolesOutsideCone ==
    \A n \in DOMAIN jet_calls :
        LET c == jet_calls[n] IN
        ( /\ c.fj_hadrons_negative # <<>>
          /\ \A i \in DOMAIN c.fj_hadrons_negative :
                Dist2(c.jet, c.fj_hadrons_negative[i]) > c.jetR * c.jetR )
        => ( c.jet_pt = c.jet_pt_uncorrected /\ c.holes_in_jet = <<>> )

\* C2 witness: a subtracting run with a jet whose cone is missed by every
\* hole of a non-empty hole list
C2_Witness ==
    /\ Subtracting
    /\ \E n \in DOMAIN jet_calls :
          LET c == jet_calls[n] IN
          /\ c.fj_hadrons_negative # <<>>
          /\ \A i \in DOMAIN c.fj_hadrons_negative :
                Dist2(c.jet, c.fj_hadrons_negative[i]) > c.jetR * c.jetR
          /\ c.jet_pt = c.jet.pt

\* the values recorded in the inclusive_jet lists of the current radius
InclusiveJetValues ==
    UNION { Elems(observable_dict_event[k]) :
              k \in { q \in DOMAIN observable_dict_event :
                        /\ q[1] = "inclusive_jet" /\ q[3] = JetR /\ q[4] = ""
                        /\ q[2] \in {"pt_alice", "pt_atlas", "pt_cms"} } }

\* C3: in pp mode every hole-subtracted value equals the unsubtracted one:
\* the jet pt of analyze_inclusive_jet whatever the hole list is, the values
\* appended to the inclusive_jet lists, the recoil jet pt of the
\* semi-inclusive fill, the jet pt that selects the dijet candidates, and,
\* for an event without holes, the leading and subleading jet pt of the
\* dijet fill.
C3_ppNoSubtraction ==
    (program = "STAT" /\ ~is_AA) =>
        /\ \A n \in DOMAIN jet_calls :
              /\ jet_calls[n].jet_pt = jet_calls[n].jet_pt_uncorrected
              /\ jet_calls[n].jet_pt = jet_calls[n].jet.pt
        /\ (pc = "jets" /\ stage = "charged") =>
              \A v \in InclusiveJetValues :
                  \E n \in DOMAIN jet_calls : v = jet_calls[n].jet.pt
        /\ \A n \in DOMAIN last_semi : last_semi[n][1] = last_semi[n][2]
        /\ \A n \in DOMAIN last_dijet :
              LET l  == last_dijet[n]
                  xj == self.dijet_observables["xj_atlas"]
              IN
              /\ l.jet_candidates =
                    SelectSeq(l.jets_selected,
                              LAMBDA jet : /\ jet.pt > xj.pt_subleading_min
                                           /\ Abs(jet.eta) < xj.eta_cut)
              /\ fj_hadrons_negative = <<>> =>
                    /\ \A m \in DOMAIN l.leading_jet :
                          l.leading_jet_pt = l.leading_jet[m].pt
                    /\ \A m \in DOMAIN l.subleading_jet :
                          l.subleading_jet_pt = l.subleading_jet[m].pt

\* C3 witness: a pp event with a recorded full jet that has a hole inside
\* its cone
C3_Witness ==
    /\ program = "STAT" /\ ~is_AA
    /\ pc = "jets" /\ stage = "charged"
    /\ InclusiveJetValues # {}
    /\ \E n \in DOMAIN jet_calls : HolesInside(jet_calls[n]) # {}

\* ------------------------------------------------------------------
\* Properties of __main__
\* ------------------------------------------------------------------

MissingFileExit ==
    /\ pc = "exited"
    /\ \E n \in DOMAIN printed : printed[n][1] = "File does not exist! Exiting!"

\* C4: when the configuration file or the input file does not exist, the
\* program prints a message and exits with a non-zero status.
C4_MissingFileFails ==
    MissingFileExit => exit_status # 0

\* ------------------------------------------------------------------
\* Properties of the fills
\* ------------------------------------------------------------------

\* the settings of the observable of a key, or None when it is not
\* configured; the trigger pt lists belong to the IAA observables and are
\* filled before any centrality range is consulted
SettingsOf(k) ==
    LET block == IF k[1] = "hadron" THEN self.hadron_observables
                 ELSE IF k[1] = "hadron_correlations" THEN self.hadron_correlation_observables
                 ELSE IF k[1] = "inclusive_jet" THEN self.inclusive_jet_observables
                 ELSE IF k[1] = "inclusive_chjet" THEN self.inclusive_chjet_observables
                 ELSE IF k[1] = "semi_inclusive_chjet" THEN self.semi_inclusive_chjet_observables
                 ELSE self.dijet_observables
        trigger == k[2] \in {"alice_trigger_pt", "star_trigger_pt"}
        name    == IF k[2] = "alice_trigger_pt" THEN "IAA_alice"
                   ELSE IF k[2] = "star_trigger_pt" THEN "IAA_star"
                   ELSE k[2]
    IN  IF ~Truthy(block) \/ name \notin DOMAIN block THEN None
        ELSE IF trigger THEN [jet_R |-> block[name].jet_R]
        ELSE block[name]

\* C5: an observable that is not configured, or whose centrality range does
\* not accept the run, gets no entry from the event, and the event raises
\* no error.
C5_SilentSkip ==
    (program = "STAT" /\ pc \in {"hadrons", "jets", "done", "error"}) =>
        /\ error = ""
        /\ \A k \in DOMAIN observable_dict_event :
              ( \/ SettingsOf(k) = None
                \/ /\ "centrality" \in DOMAIN SettingsOf(k)
                   /\ ~centrality_accepted(SettingsOf(k).centrality) )
              => observable_dict_event[k] = <<>>

\* ------------------------------------------------------------------
\* Properties of charge
\* ------------------------------------------------------------------

\* the species the charge lookup is documented for
DocumentedSpecies ==
    { 11, -11, 13, -13, 211, -211, 321, -321, 2212, -2212, 3222, -3222,
      3112, -3112, 3312, -3312, 3334, -3334, 22, 111, 2112 }

\* C6: over the documented species the charge lookup is total and
\* idempotent: it returns a value of {-1, 0, +1} without ending the run,
\* and a second lookup of the same pid returns the same value.
C6_ChargeTotal ==
    /\ \A pid \in DocumentedSpecies :
          /\ charge(pid).returned
          /\ charge(pid).value \in {-1, 0, 1}
    /\ \A n \in DOMAIN charge_result :
          charge_result[n].pid \in DocumentedSpecies =>
             /\ "value" \in DOMAIN charge_result[n]
             /\ charge_result[n].value \in {-1, 0, 1}
             /\ charge_result[n].again = charge_result[n].value
             /\ pc = "idle" /\ exit_status = -1

\* C6 witness: the lookup of the anti-Omega returned +1, twice
C6_Witness ==
    /\ charge_result # <<>>
    /\ charge_result[1].pid = -3334
    /\ charge_result[1].value = 1 /\ charge_result[1].again = 1
    /\ pc = "idle"

\* the lookup of pid ended the run with the diagnostic that names pid
ChargeExit(pid) ==
    /\ pc = "exited"
    /\ exit_status # 0
    /\ printed # <<>>
    /\ printed[Len(printed)] = <<"failed to compute charge of pid", pid>>

\* C7: for a pid outside the documented species the charge lookup returns
\* no value and ends the run with a diagnostic naming the pid, and once the
\* run has ended no observable list changes any more.
C7_ChargeExits ==
    /\ [](\A n \in DOMAIN charge_result :
             charge_result[n].pid \notin DocumentedSpecies =>
                /\ "value" \notin DOMAIN charge_result[n]
                /\ ChargeExit(charge_result[n].pid))
    /\ [][pc = "exited" =>
             /\ pc' = "exited"
             /\ observable_dict_event' = observable_dict_event]_vars

\* C7 witness: the lookup of a K0L (130) ended the run
C7_Witness ==
    /\ charge_result # <<>>
    /\ charge_result[1].pid = 130
    /\ ChargeExit(130)

\* ------------------------------------------------------------------
\* Properties of the observable container over a sequence of events
\* ------------------------------------------------------------------

\* C8: at the start of every analyze_event each key the configuration
\* declares is bound to an empty list before anything is appended, and at
\* every moment the lists hold exactly the values appended during the most
\* recent event.
C8_PerEventReset ==
    /\ pc = "hadrons" =>
          /\ OutputKeys \subseteq DOMAIN observable_dict_event
          /\ \A k \in DOMAIN observable_dict_event : observable_dict_event[k] = <<>>
    /\ pc \in {"hadrons", "jets", "idle", "error"} =>
          /\ DOMAIN observable_dict_event = DOMAIN appended
          /\ \A k \in DOMAIN observable_dict_event :
                observable_dict_event[k] = appended[k]

\* some list of the container d is not empty
Populated(d) == \E k \in DOMAIN d : d[k] # <<>>

\* C8 witness: a second event has been started after a first one that left
\* values in the lists, and the lists are empty again
C8_Witness ==
    /\ pc = "hadrons"
    /\ first_run # <<>>
    /\ Populated(first_run[1].d)
    /\ ~Populated(observable_dict_event)

\* C9: whenever analyze_event has finished on the event that was analysed
\* first, the populated keys, the value sequences and the raised error are
\* those of the first analysis, whatever events were analysed in between.
C9_Determinism ==
    ( /\ pc \in {"idle", "error"}
      /\ first_run # <<>>
      /\ event = first_run[1].event )
    => /\ observable_dict_event = first_run[1].d
       /\ error = first_run[1].err

\* C9 witness: the first event was analysed again after a different event,
\* and left values in the lists
C9_Witness ==
    /\ pc = "idle"
    /\ first_run # <<>>
    /\ first_run[1].again
    /\ event = first_run[1].event
    /\ Populated(observable_dict_event)

\* ------------------------------------------------------------------
\* Properties of the unsubtracted lists
\* ------------------------------------------------------------------

JetBlocks == {"inclusive_jet", "inclusive_chjet", "semi_inclusive_chjet", "dijet"}

SubtractedSuffixes == {"", "_lowTrigger", "_highTrigger"}

\* C10: in AA and in pp, every jet observable with a hole-subtracted list
\* has its _unsubtracted list created by initialize_output_lists.
C10_UnsubtractedSaved ==
    (program = "STAT" /\ pc \in {"hadrons", "jets", "done", "error"}) =>
        \A k \in DOMAIN observable_dict_event :
            (k[1] \in JetBlocks /\ k[4] \in SubtractedSuffixes) =>
                \E u \in DOMAIN observable_dict_event :
                    /\ u[1] = k[1] /\ u[2] = k[2] /\ u[3] = k[3]
                    /\ u[4] \notin SubtractedSuffixes

\* ------------------------------------------------------------------
\* Properties of the hadron spectra
\* ------------------------------------------------------------------

\* the species an experiment's hadron observable counts
HadronSpecies(name) ==
    IF name \in {"pt_ch_alice", "pt_ch_atlas", "pt_ch_cms"} THEN ChargedPids
    ELSE IF name = "pt_pi_alice" THEN {211}
    ELSE IF name = "pt_ch_star" THEN {211, 321, 2212}
    ELSE {111}

\* the particle passes the cuts of the hadron observable
PassesHadronCuts(particle, name) ==
    LET obs    == self.hadron_observables[name]
        pt_max == IF name \in {"pt_pi0_phenix", "pt_ch_star"} THEN 100 ELSE obs.pt[2]
    IN  /\ centrality \in obs.centrality
        /\ obs.pt[1] < particle.pt /\ particle.pt < pt_max
        /\ Abs(particle.eta) < obs.eta_cut
        /\ Abs(particle.pid) \in HadronSpecies(name)

\* the pt, in event order, of the particles of one status that pass the cuts
HadronSpectrum(name, status) ==
    LET passing == SelectSeq(event, LAMBDA particle :
                       particle.status = status /\ PassesHadronCuts(particle, name))
    IN  [ i \in 1..Len(passing) |-> passing[i].pt ]

\* C11: once the hadrons are filled, a hadron list without suffix holds the
\* pt of the positive-status particles that pass its cuts and nothing else,
\* a _holes list holds the pt of the negative-status particles that pass
\* them and nothing else, the values are the particles' own pt (nothing is
\* subtracted), and in pp the negative-status particles go nowhere.
C11_HadronsSeparate ==
    (program = "STAT" /\ pc \in {"jets", "done"} /\ error = "") =>
        /\ \A k \in DOMAIN observable_dict_event :
              k[1] = "hadron" =>
                 /\ k[4] \in {"", "_holes"}
                 /\ k[4] = "" =>
                       observable_dict_event[k] = HadronSpectrum(k[2], "+")
                 /\ k[4] = "_holes" =>
                       /\ is_AA
                       /\ observable_dict_event[k] = HadronSpectrum(k[2], "-")

\* C11 witness: an AA event that put a shower particle in a hadron list and
\* a hole of another pt in its _holes list
C11_Witness ==
    /\ program = "STAT" /\ is_AA /\ pc = "jets"
    /\ \E name \in DOMAIN self.hadron_observables :
          LET plus  == observable_dict_event[Key("hadron", name, 0, "")]
              holes == observable_dict_event[Key("hadron", name, 0, "_holes")]
          IN  /\ plus # <<>> /\ holes # <<>>
              /\ Elems(plus) \cap Elems(holes) = {}

\* ------------------------------------------------------------------
\* Properties of the charged-jet substructure observables
\* ------------------------------------------------------------------

\* the charged jets of the current jet radius have been analysed (to the
\* end, or up to an exception)
ChargedJetsDone ==
    /\ program = "STAT"
    /\ \/ pc = "jets" /\ stage = "semi"
       \/ pc = "error" /\ stage = "charged"

\* the calls of analyze_inclusive_jet whose jet passes the cuts of the
\* charged-jet observable
AcceptedFor(name) ==
    SelectSeq(jet_calls, LAMBDA c :
        LET obs == self.inclusive_chjet_observables[name]
        IN  /\ centrality \in obs.centrality
            /\ c.jetR \in Elems(obs.jet_R)
            /\ Abs(c.jet.eta) < obs.eta_cut_R - c.jetR
            /\ obs.pt[1] < c.jet_pt /\ c.jet_pt < obs.pt[2])

\* sum of pt * delta_R(particle, jet) over the particles at the indices I
RECURSIVE AngularitySum(_, _, _)
AngularitySum(particles, jet, I) ==
    IF I = {} THEN 0
    ELSE LET i == CHOOSE j \in I : TRUE
             r == CHOOSE d \in 0..Dist2(particles[i], jet) : d * d = Dist2(particles[i], jet)
         IN  particles[i].pt * r + AngularitySum(particles, jet, I \ {i})

\* g * jet_pt of the constituents and of the holes in the jet of a call
ConstituentAngularity(c) ==
    AngularitySum(c.jet.constituents, c.jet, DOMAIN c.jet.constituents)

HoleAngularity(c) ==
    AngularitySum(c.fj_hadrons_negative, c.jet, HolesInside(c))

\* C12: in AA mode, once the charged jets of a radius configured for
\* g_alice are analysed, the _unsubtracted list holds, per accepted jet, the
\* angularity of the constituents, and the subtracted list holds that value
\* minus the hole sum: one entry in each list per accepted jet.
C12_AngularitySubtracted ==
    ( /\ ChargedJetsDone /\ is_AA /\ self.sqrts = 2760
      /\ JetR \in Elems(self.inclusive_chjet_observables["g_alice"].jet_R) )
    => LET accepted     == AcceptedFor("g_alice")
           subtracted   == Key("inclusive_chjet", "g_alice", JetR, "")
           unsubtracted == Key("inclusive_chjet", "g_alice", JetR, "_unsubtracted")
       IN  /\ observable_dict_event[unsubtracted] =
                 [ i \in 1..Len(accepted) |->
                     <<ConstituentAngularity(accepted[i]), accepted[i].jet_pt>> ]
           /\ observable_dict_event[subtracted] =
                 [ i \in 1..Len(accepted) |->
                     <<ConstituentAngularity(accepted[i]) - HoleAngularity(accepted[i]),
                       accepted[i].jet_pt>> ]

\* sum of pt^2 over the particles at the indices I
RECURSIVE Pt2At(_, _)
Pt2At(list, I) ==
    IF I = {} THEN 0
    ELSE LET i == CHOOSE j \in I : TRUE
         IN  list[i].pt * list[i].pt + Pt2At(list, I \ {i})

\* C19: in AA mode, once the charged jets of a radius configured for
\* ptd_alice are analysed without an exception, each accepted jet has
\* exactly one entry in the _unsubtracted list, computed from its
\* constituents only, and exactly one entry in the subtracted list,
\* whatever the number of holes in the jet.
C19_PtdBookkeeping ==
    ( /\ ChargedJetsDone /\ is_AA /\ error = "" /\ self.sqrts = 2760
      /\ JetR \in Elems(self.inclusive_chjet_observables["ptd_alice"].jet_R) )
    => LET accepted     == AcceptedFor("ptd_alice")
           subtracted   == Key("inclusive_chjet", "ptd_alice", JetR, "")
           unsubtracted == Key("inclusive_chjet", "ptd_alice", JetR, "_unsubtracted")
       IN  /\ Len(observable_dict_event[subtracted]) = Len(accepted)
           /\ observable_dict_event[unsubtracted] =
                 [ i \in 1..Len(accepted) |->
                     <<Pt2At(accepted[i].jet.constituents,
                             DOMAIN accepted[i].jet.constituents),
                       accepted[i].jet_pt>> ]

\* ------------------------------------------------------------------
\* The configuration of the analysis object
\* ------------------------------------------------------------------

\* the members that initialize_user_config loads
Configuration(obj) ==
    [ sqrts |-> obj.sqrts, jet_R |-> obj.jet_R, min_jet_pt |-> obj.min_jet_pt,
      max_jet_y |-> obj.max_jet_y, grooming_settings |-> obj.grooming_settings,
      hadron_observables |-> obj.hadron_observables,
      hadron_correlation_observables |-> obj.hadron_correlation_observables,
      inclusive_chjet_observables |-> obj.inclusive_chjet_observables,
      inclusive_jet_observables |-> obj.inclusive_jet_observables,
      semi_inclusive_chjet_observables |-> obj.semi_inclusive_chjet_observables,
      dijet_observables |-> obj.dijet_observables ]

\* C14: once the analysis object is constructed, no step of any sequence of
\* analyze_event calls changes sqrts, jet_R, min_jet_pt, max_jet_y,
\* grooming_settings or an observable block.
C14_ConfigurationFixed ==
    [][ (program = "STAT" /\ pc # "start") => Configuration(self') = Configuration(self) ]_vars

\* a later event of a run has passed the statement that sums two jet_R
\* lists of the configuration, and the configuration is the loaded one
C14_Witness ==
    /\ program = "STAT" /\ scope = "repeat" /\ first_run # <<>>
    /\ pc = "jets" /\ stage = "dijet" /\ r_idx = 2
    /\ Truthy(self.semi_inclusive_chjet_observables) /\ self.sqrts = 2760
    /\ Configuration(self) = Configuration(initialize_user_config(ConfigFile(2760, TRUE)))

\* ------------------------------------------------------------------
\* leading_jet and the dijet momentum balance
\* ------------------------------------------------------------------

\* the calls of leading_jet on record: the direct call, and the two calls
\* made by the latest fill_dijet_observables
LeadingJetCalls ==
    { leading_result[n] : n \in DOMAIN leading_result }
    \cup { [jets |-> last_dijet[n].jet_candidates,
            fj_hadrons_negative |-> last_dijet[n].fj_hadrons_negative,
            jetR |-> last_dijet[n].jetR,
            leading_jet |-> last_dijet[n].leading_jet,
            leading_jet_pt |-> last_dijet[n].leading_jet_pt,
            i |-> last_dijet[n].i_leading_jet] : n \in DOMAIN last_dijet }

\* pt of a jet minus the pt of the holes with delta_R < jetR
CorrectedPt(jet, negs, jetR) ==
    jet.pt - PtAt(negs, { h \in DOMAIN negs : Dist2(jet, negs[h]) < jetR * jetR })

\* position k holds the first jet of maximal hole-corrected pt
FirstMaximal(jets, negs, jetR, k) ==
    \A j \in DOMAIN jets :
        /\ CorrectedPt(jets[j], negs, jetR) <= CorrectedPt(jets[k], negs, jetR)
        /\ j < k => CorrectedPt(jets[j], negs, jetR) < CorrectedPt(jets[k], negs, jetR)

\* C15: for every non-empty list handed to leading_jet, the returned index
\* (counted from 0) is the position of the returned leading jet in the list.
C15_LeadingIndex ==
    \A c \in LeadingJetCalls :
        c.jets # <<>> =>
            /\ c.i + 1 \in DOMAIN c.jets
            /\ c.leading_jet = << c.jets[c.i + 1] >>

\* C17: leading_jet returns the first jet of maximal hole-corrected pt
\* together with that corrected pt, whatever the sign of the corrected pts;
\* for an empty list it returns (None, 0., 0).
C17_LeadingJetMaximal ==
    \A c \in LeadingJetCalls :
        IF c.jets = <<>>
        THEN c.leading_jet = <<>> /\ c.leading_jet_pt = 0 /\ c.i = 0
        ELSE \E k \in DOMAIN c.jets :
                /\ FirstMaximal(c.jets, c.fj_hadrons_negative, c.jetR, k)
                /\ c.leading_jet = << c.jets[k] >>
                /\ c.leading_jet_pt = CorrectedPt(c.jets[k], c.fj_hadrons_negative, c.jetR)

\* a direct call with two jets tied at a corrected pt of zero: the first one
\* is returned
C17_Witness ==
    /\ leading_result # <<>>
    /\ LET c == leading_result[1]
       IN  /\ Len(c.jets) = 2
           /\ \A j \in DOMAIN c.jets :
                 CorrectedPt(c.jets[j], c.fj_hadrons_negative, c.jetR) = 0
           /\ c.leading_jet = << c.jets[1] >>
           /\ c.leading_jet_pt = 0

\* C16: whenever fill_dijet_observables finds a subleading jet, it is a
\* candidate other than the leading jet, of the highest hole-corrected pt
\* among the candidates other than the leading jet, and the pt recorded for
\* it is that corrected pt.
C16_LeadingTwoJets ==
    \A n \in DOMAIN last_dijet :
        LET l == last_dijet[n]
            negs == l.fj_hadrons_negative
            others == SelectSeq(l.jet_candidates, LAMBDA jet : <<jet>> # l.leading_jet)
        IN  (l.leading_jet # <<>> /\ l.subleading_jet # <<>>) =>
                /\ l.subleading_jet # l.leading_jet
                /\ \E k \in DOMAIN others :
                      /\ FirstMaximal(others, negs, l.jetR, k)
                      /\ l.subleading_jet = << others[k] >>
                      /\ l.subleading_jet_pt = CorrectedPt(others[k], negs, l.jetR)

\* ------------------------------------------------------------------
\* Groomed observables
\* ------------------------------------------------------------------

IsPrefix(a, b) == Len(a) <= Len(b) /\ a = SubSeq(b, 1, Len(a))

\* the jets of a radius found in the particles of positive status alone
PositiveJets(jetR, charged) ==
    jets_selected_of(SelectSeq(event, LAMBDA p : p.status = "+" /\ (charged => IsCharged(p))),
                     jetR, self.min_jet_pt, self.max_jet_y)

\* the pt of such a jet, less, in AA mode, the pt of the holes in its cone
GroomedJetPt(jet, jetR, charged) ==
    LET negs == SelectSeq(event, LAMBDA p : p.status = "-" /\ (charged => IsCharged(p)))
    IN  IF is_AA THEN CorrectedPt(jet, negs, jetR) ELSE jet.pt

\* what a groomed list holds once all the jets of its radius are analysed:
\* per accepted jet, the value soft_drop gives for that jet
GroomedExpected(k) ==
    LET jetR     == k[3]
        charged  == k[1] = "inclusive_chjet"
        settings == { g \in Elems(self.grooming_settings) : SoftDropSuffix(g) = k[4] }
        jets     == PositiveJets(jetR, charged)
        pt(jet)  == GroomedJetPt(jet, jetR, charged)
        in(jet, obs) == /\ centrality \in obs.centrality
                        /\ jetR \in Elems(obs.jet_R)
                        /\ obs.pt[1] < pt(jet) /\ pt(jet) < obs.pt[Len(obs.pt)]
    IN  IF settings = {} THEN <<>>
        ELSE LET g == CHOOSE x \in settings : TRUE
                 split(jet) == soft_drop(jet, g.beta, g.zcut, jetR)
             IN  IF charged
                 THEN LET obs == self.inclusive_chjet_observables["zg_alice"]
                          accepted == SelectSeq(jets, LAMBDA jet :
                                          /\ g \in Elems(obs.SoftDrop) /\ in(jet, obs)
                                          /\ Abs(jet.eta) < obs.eta_cut_R - jetR)
                      IN  [ i \in DOMAIN accepted |->
                              IF k[2] = "zg_alice" THEN split(accepted[i]).z
                              ELSE <<split(accepted[i]).Delta, jetR>> ]
                 ELSE LET obs == self.inclusive_jet_observables[k[2]]
                          accepted == SelectSeq(jets, LAMBDA jet :
                                          /\ g \in Elems(obs.SoftDrop) /\ in(jet, obs)
                                          /\ Abs(jet.eta) < obs.eta_cut
                                          /\ split(jet).Delta > obs.dR)
                      IN  [ i \in DOMAIN accepted |->
                              << pt(accepted[i]),
                                 IF k[2] = "mg_cms"
                                 THEN << Mass(split(accepted[i]).pair), pt(accepted[i]) >>
                                 ELSE split(accepted[i]).z >> ]

GroomedNames == {"mg_cms", "zg_cms", "zg_alice", "tg_alice"}

\* C13: every groomed list (zg, theta_g, mg) holds values of jets found in
\* the particles of positive status alone, groomed as found: the holes of
\* the event enter only through the corrected jet pt, in the acceptance of
\* the jet and in the jet_pt paired with or dividing the value.  At the end
\* of an event the list holds the value of every accepted jet.
C13_GroomedFromPositive ==
    (program = "STAT" /\ pc \in {"jets", "done", "error"}) =>
        \A k \in DOMAIN observable_dict_event :
            k[2] \in GroomedNames =>
                /\ IsPrefix(observable_dict_event[k], GroomedExpected(k))
                /\ (pc = "done" /\ k[4] \in { SoftDropSuffix(g) : g \in Elems(SoftDropSettings) })
                      => observable_dict_event[k] = GroomedExpected(k)

\* an AA event is analysed to the end: the R = 0.4 jet of the pion and the
\* kaon has the hole in its cone, its zg is that of the kaon prong in the
\* uncorrected jet, and its mg is paired with the corrected pt
C13_Witness ==
    /\ program = "STAT" /\ pc = "done" /\ is_AA /\ error = ""
    /\ \E i, j, h \in DOMAIN event :
          /\ event[i].status = "+" /\ event[i].pt = 60
          /\ event[j].status = "+" /\ event[j].pt = 30
          /\ event[h].status = "-"
    /\ Len(event) = 3
    /\ observable_dict_event[Key("inclusive_chjet", "zg_alice", 4, "_zcut2_beta0")] = << <<30, 90>> >>
    /\ observable_dict_event[Key("inclusive_chjet", "tg_alice", 4, "_zcut2_beta0")] = << <<2, 4>> >>
    /\ LET mg == observable_dict_event[Key("inclusive_jet", "mg_cms", 4, "_zcut2_beta0")]
       IN  Len(mg) = 1 /\ mg[1][1] = 65

\* ------------------------------------------------------------------
\* Keys of the observable container
\* ------------------------------------------------------------------

\* C18: in pp and in AA mode, every append made by a fill during
\* analyze_event finds its key among those initialize_output_lists bound
\* for the event: no event ends in a missing-key error.
C18_KeyConsistency ==
    program = "STAT" => error # "KeyError"

====
